---- MODULE Spec2Model ----
(***************************************************************************)
(* RapidSift: state-machine model of the deduplication subsystem           *)
(* (ExactDeduplicator, NearDeduplicator, MinHashSignature, LSHIndex,       *)
(* SimHashSignature), of LicenseFilter, of ModelQualityFilter and of the   *)
(* filter orchestrator.                                                    *)
(*                                                                         *)
(* Conventions.  Document positions are 1-based here: position i of the    *)
(* model is index i-1 of the C++ vectors.  Doubles that the code compares  *)
(* are kept as exact rationals over a fixed denominator (quarters for the  *)
(* near-dedup threshold, tenths for confidences).  The 64-bit Hash type is *)
(* kept as arithmetic modulo HashMod.                                      *)
(***************************************************************************)
EXTENDS Integers, Sequences, FiniteSets, TLC

VARIABLES
    component,          \* which object the run exercises
    use_openmp,         \* build flag USE_OPENMP
    \* ---- ExactDeduplicator
    ed_config,          \* config_ : [algorithm, keep_first, parallel]
    ed_stats,           \* total_processed_, unique_found_, duplicates_removed_
    ed_pc,              \* position inside deduplicate()
    ed_documents,       \* the argument of the running / last call
    ed_iter,            \* per loop iteration: "pending" | "stored"
    ed_local,           \* per loop iteration: value returned by compute_document_hash
    ed_hashes,          \* the vector `hashes`
    ed_result,          \* DeduplicationResult of the running / last call
    \* ---- NearDeduplicator
    nd_config,          \* config_ : [method, threshold, num_permutations, ngram_size, simhash_bits]
    nd_pc,              \* position inside deduplicate()
    nd_documents,       \* the argument of the running / last call
    nd_iter,            \* per loop iteration: "pending" | "stored"
    nd_local,           \* per loop iteration: value returned by compute_*_signature
    nd_signatures,      \* the vector `signatures`
    nd_result,          \* DeduplicationResult of the running / last call
    \* ---- LicenseFilter
    lf_config,          \* config_
    lf_opted_out_domains, \* opted_out_domains_
    lf_stats,           \* stats_ : total_processed, kept, rejected
    lf_last,            \* the last evaluate(): its document and FilterDecision
    lf_requested,       \* history: the arguments of add_opt_out_request so far
    lf_later,           \* history: the calls made after the first opt-out request
    lf_given_allowlist, \* history: allowed_domains of the configuration last handed in
    \* ---- ModelQualityFilter
    mq_config,          \* model_config_
    mq_models,          \* models_ : per model its type and whether it is loaded
    mq_cache,           \* prediction_cache_ : text -> cached ensemble prediction
    mq_stats,           \* stats_ : total_processed, kept, rejected
    mq_last,            \* the last evaluate(): its text and FilterDecision, and
                        \* history: what the models computed past the cache lookup
    \* ---- QualityProcessor / ContentProcessor
    op_config,          \* config_ and the library the processor belongs to
    op_filter_count,    \* filters_.size()
    op_pc,              \* position inside assess_document()
    op_text,            \* the text handed to the next filter
    op_assessment,      \* the assessment under construction / returned
    op_yielded,         \* assessments returned for the current document
    \* ---- DecontaminationFilter
    df_pc,              \* "ready", or how the object ended: "threw" | "fault"
    df_config,          \* config_
    df_bloom,           \* bloom_filter_ : null, or the NGramBloomFilter
    df_benchmark_ngrams, \* benchmark_ngrams_
    df_ngram_to_dataset, \* ngram_to_dataset_
    df_common_phrases,  \* common_phrases_
    df_cache,           \* assessment_cache_ : doc.id -> assessment
    df_stats,           \* stats_ : the document counters
    df_loads,           \* benchmark files loaded so far
    df_iteration,       \* visiting order of source_counts per insertion order
    df_added,           \* history: the n-grams handed to bloom_filter_->add
    df_last,            \* the last assess_document(): document, config_, result, and
                        \* history: what the computation past the cache gives, the
                        \* number of its n-grams in benchmark_ngrams_
    \* ---- PIIFilter
    pf_pc,              \* "ready", or "threw" when the constructor threw
    pf_config,          \* config_
    pf_compiled,        \* the patterns compile_patterns has assigned
    pf_last,            \* the last evaluate(): text, config_, decision, second detection
    \* ---- ExactDeduplicator::deduplicate_stream
    st_pc,              \* position inside deduplicate_stream()
    st_input,           \* input_stream, as its lines
    st_batch_size,      \* the argument batch_size
    st_read,            \* number of lines std::getline has handed out
    st_seen_hashes,     \* the unordered_set seen_hashes
    st_output,          \* output_stream, as the lines written
    st_hashes,          \* history: doc_hash of every line read (NoHash: none computed)
    st_written,         \* history: whether the line read was written
    \* ---- HtmlParser inside TextExtractor::extract
    hp_pc,              \* position inside extract(): the loop of the parser that runs
    hp_html,            \* html_
    hp_pos,             \* pos_
    hp_stack,           \* the calls of parse_element in progress: element->tag of each
    \* ---- LanguageFilter
    lg_pc,              \* position inside filter()
    lg_config,          \* config_
    lg_documents,       \* the argument documents
    lg_callback,        \* whether a progress_callback was passed
    lg_i,               \* the loop variable i
    lg_result,          \* the LanguageFilterResult under construction
    lg_calls,           \* history: the calls of progress_callback, each with the
                        \* number of documents filter() had processed by then
    \* ---- TextUtils
    tu_text,            \* the argument of the last strip_html call
    tu_result,          \* what the last strip_html call returned
    tu_calls,           \* the number of strip_html calls made
    \* ---- DomainFilter
    dm_config,          \* config_
    dm_lists,           \* url_shorteners_, malicious_tlds_, blocked_url_regexes_
    dm_caller_blocked,  \* history: the block set as the caller's calls configured it
    dm_last             \* the last evaluate(): its URL, decision, and the caller's block set then

edVars == <<ed_config, ed_stats, ed_pc, ed_documents, ed_iter, ed_local, ed_hashes, ed_result>>
ndVars == <<nd_config, nd_pc, nd_documents, nd_iter, nd_local, nd_signatures, nd_result>>
lfVars == <<lf_config, lf_opted_out_domains, lf_stats, lf_last, lf_requested, lf_later,
           lf_given_allowlist>>
mqVars == <<mq_config, mq_models, mq_cache, mq_stats, mq_last>>
opVars == <<op_config, op_filter_count, op_pc, op_text, op_assessment, op_yielded>>
dfVars == <<df_pc, df_config, df_bloom, df_benchmark_ngrams, df_ngram_to_dataset,
           df_common_phrases, df_cache, df_stats, df_loads, df_iteration, df_added, df_last>>
pfVars == <<pf_pc, pf_config, pf_compiled, pf_last>>
stVars == <<st_pc, st_input, st_batch_size, st_read, st_seen_hashes, st_output, st_hashes,
           st_written>>
hpVars == <<hp_pc, hp_html, hp_pos, hp_stack>>
lgVars == <<lg_pc, lg_config, lg_documents, lg_callback, lg_i, lg_result, lg_calls>>
tuVars == <<tu_text, tu_result, tu_calls>>
dmVars == <<dm_config, dm_lists, dm_caller_blocked, dm_last>>
filterVars == <<lfVars, mqVars, opVars, dfVars, pfVars, stVars, hpVars, lgVars, tuVars, dmVars>>
vars == <<component, use_openmp, edVars, ndVars, filterVars>>

\* ---------------------------------------------------------------- bounds
MaxDocs == 3
MaxText == 2
HashMod == 4

\* ---------------------------------------------------------------- helpers
NoHash == -1
HashSpace == 0 .. (HashMod - 1)
Texts == 1 .. MaxText
DocLists == UNION {[1 .. n -> Texts] : n \in 0 .. MaxDocs}
Range(s) == {s[i] : i \in DOMAIN s}
Last(s) == s[Len(s)]
MinOf(S) == CHOOSE x \in S : \A y \in S : x <= y
MaxOf(S) == CHOOSE x \in S : \A y \in S : x >= y
Clamp(lo, hi, x) == IF x < lo THEN lo ELSE IF x > hi THEN hi ELSE x
\* every order in which the elements of a hash container can be visited
Orderings(S) == {s \in [1 .. Cardinality(S) -> S] : \A i, j \in DOMAIN s : i # j => s[i] # s[j]}
IsStrictlyIncreasing(s) == \A i, j \in DOMAIN s : i < j => s[i] < s[j]
Count(s, x) == Cardinality({i \in DOMAIN s : s[i] = x})

\* ============================================================ hash_utils
Algorithms == {"MD5", "SHA1", "SHA256", "XXHASH64"}

\* the three digest functions: first 8 bytes of the digest, a fixed function
\* of the text (distinct texts may share a value)
md5_hash(text) == (3 * text + 1) % HashMod
sha1_hash(text) == (text + 2) % HashMod
sha256_hash(text) == (2 * text) % HashMod

\* hash_utils::xxhash64 calls itself and nothing else.  The value a build
\* hands back from such a call is unconstrained by the text (two sample values
\* stand for it); the other outcome, the call that never comes back, is the
\* action *_XxhashNoReturn.
xxhash64(text) == {0, 1}

\* the set of values compute_hash can return for a text
compute_hash(text, algorithm) ==
    CASE algorithm = "MD5" -> {md5_hash(text)}
      [] algorithm = "SHA1" -> {sha1_hash(text)}
      [] algorithm = "SHA256" -> {sha256_hash(text)}
      [] algorithm = "XXHASH64" -> xxhash64(text)
      [] OTHER -> xxhash64(text)

\* ============================================================ text_utils
\* the documents of the near-duplicate runs, as character strings
NearTexts == {1, 2}
TextOf(t) ==
    CASE t = 1 -> <<"a", "b">>
      [] OTHER -> <<"A", " ", " ", "b">>
NearDocLists == UNION {[1 .. n -> NearTexts] : n \in 0 .. MaxDocs}

to_lowercase(s) ==
    LET Lower(c) == CASE c = "A" -> "a" [] c = "B" -> "b" [] OTHER -> c
    IN [i \in DOMAIN s |-> Lower(s[i])]

\* to_lowercase, regex_replace(result, "\\s+", " "), then the trim of both ends
normalize_text(text) ==
    LET RECURSIVE CollapseWhitespace(_)
        CollapseWhitespace(s) ==
            IF s = <<>> THEN <<>>
            ELSE IF Head(s) = " "
                 THEN IF Len(s) > 1 /\ s[2] = " "
                      THEN CollapseWhitespace(Tail(s))
                      ELSE <<" ">> \o CollapseWhitespace(Tail(s))
                 ELSE <<Head(s)>> \o CollapseWhitespace(Tail(s))
        RECURSIVE TrimLeft(_)
        TrimLeft(s) == IF s # <<>> /\ Head(s) = " " THEN TrimLeft(Tail(s)) ELSE s
        RECURSIVE TrimRight(_)
        TrimRight(s) ==
            IF s # <<>> /\ s[Len(s)] = " " THEN TrimRight(SubSeq(s, 1, Len(s) - 1)) ELSE s
    IN TrimRight(TrimLeft(CollapseWhitespace(to_lowercase(text))))

\* tokenize: the maximal runs of word characters, lower-cased
tokenize(text) ==
    LET RECURSIVE TokenizeFrom(_, _)
        TokenizeFrom(s, cur) ==
            IF s = <<>> THEN (IF cur = <<>> THEN <<>> ELSE <<to_lowercase(cur)>>)
            ELSE IF Head(s) = " "
                 THEN (IF cur = <<>> THEN <<>> ELSE <<to_lowercase(cur)>>)
                      \o TokenizeFrom(Tail(s), <<>>)
                 ELSE TokenizeFrom(Tail(s), Append(cur, Head(s)))
    IN TokenizeFrom(text, <<>>)

\* NearDeduplicator::generate_ngrams
generate_ngrams(text, n) ==
    LET normalized == normalize_text(text)
    IN IF Len(normalized) < n THEN <<normalized>>
       ELSE [i \in 1 .. (Len(normalized) - n + 1) |-> SubSeq(normalized, i, i + n - 1)]

\* ====================================================== MinHashSignature
HashMax == HashMod - 1
Seeds == {0, 1}

\* k-th draw of the mt19937_64 that the constructor seeds from random_device:
\* a fixed function of the seed (two seeds agree on their first 128 draws here)
MtDraw(seed, k) == (3 * k + 1 + seed * ((k - 1) \div 128)) % HashMod

\* dis(gen) | 1
hash_functions_a_(seed, i) ==
    LET x == MtDraw(seed, 2 * i - 1)
    IN IF x % 2 = 1 THEN x ELSE x + 1
hash_functions_b_(seed, i) == MtDraw(seed, 2 * i)

\* the object right after MinHashSignature(num_permutations)
MinHashSignature(num_permutations, seed) ==
    [signature_ |-> [i \in 1 .. num_permutations |-> HashMax], seed |-> seed]

compute_min_hash(sig, element_hash, i) ==
    (hash_functions_a_(sig.seed, i) * element_hash + hash_functions_b_(sig.seed, i)) % HashMod

\* update(Hash): signature_[i] = min(signature_[i], perm_hash)
MinHashUpdate(sig, element_hash) ==
    [sig EXCEPT !.signature_ =
        [i \in DOMAIN sig.signature_ |->
            LET perm_hash == compute_min_hash(sig, element_hash, i)
            IN IF perm_hash < sig.signature_[i] THEN perm_hash ELSE sig.signature_[i]]]

\* number of equal positions and the comparison similarity >= threshold,
\* threshold given in quarters
JaccardMatches(s1, s2) ==
    Cardinality({i \in DOMAIN s1.signature_ : s1.signature_[i] = s2.signature_[i]})
jaccard_at_least(s1, s2, quarters) ==
    IF Len(s1.signature_) # Len(s2.signature_) THEN 0 >= quarters
    ELSE 4 * JaccardMatches(s1, s2) >= quarters * Len(s1.signature_)

\* ============================================================== LSHIndex
NumBands == 16
BandSize == 8
SizeMod == 65521

hash_band(band) ==
    LET RECURSIVE From(_, _)
        From(rest, result) ==
            IF rest = <<>> THEN result
            ELSE From(Tail(rest), (result * 31 + Head(rest)) % SizeMod)
    IN From(band, 0)

BandStart(band) == band * BandSize
BandEnd(band, size) == IF BandStart(band) + BandSize < size THEN BandStart(band) + BandSize ELSE size
\* sig.begin() + start_idx lies behind sig.end() for some band
BandOutOfRange(size) == \E band \in 0 .. (NumBands - 1) : BandStart(band) > size
BandValues(sig, band) ==
    SubSeq(sig.signature_, BandStart(band) + 1, BandEnd(band, Len(sig.signature_)))

EmptyIndex == [band \in 0 .. (NumBands - 1) |-> << >>]

\* LSHIndex::insert
LshInsert(band_tables_, doc_id, sig) ==
    [band \in 0 .. (NumBands - 1) |->
        LET band_hash == hash_band(BandValues(sig, band))
            table == band_tables_[band]
        IN [k \in (DOMAIN table) \cup {band_hash} |->
                IF k = band_hash
                THEN (IF k \in DOMAIN table THEN Append(table[k], doc_id) ELSE <<doc_id>>)
                ELSE table[k]]]

RECURSIVE LshBuild(_, _, _)
LshBuild(band_tables_, signatures, i) ==
    IF i > Len(signatures) THEN band_tables_
    ELSE LshBuild(LshInsert(band_tables_, i, signatures[i]), signatures, i + 1)

\* LSHIndex::query: the content of the unordered_set `candidates`
LshQuery(band_tables_, sig) ==
    UNION {LET band_hash == hash_band(BandValues(sig, band))
           IN IF band_hash \in DOMAIN band_tables_[band]
              THEN {band_tables_[band][band_hash][k] : k \in DOMAIN band_tables_[band][band_hash]}
              ELSE {} : band \in 0 .. (NumBands - 1)}

\* ====================================================== SimHashSignature
\* compute(tokens), token_hashes[k] being what token_hash returned for token k
SimHashCompute(num_bits, token_hashes) ==
    LET Bit(x, i) == (x \div (2 ^ i)) % 2
        RECURSIVE BitSum(_, _)
        BitSum(i, k) ==
            IF k > Len(token_hashes) THEN 0
            ELSE (IF Bit(token_hashes[k], i) = 1 THEN 1 ELSE -1) + BitSum(i, k + 1)
        RECURSIVE Value(_)
        Value(i) ==
            IF i >= num_bits THEN 0
            ELSE (IF BitSum(i, 1) > 0 THEN 2 ^ i ELSE 0) + Value(i + 1)
    IN [hash_value_ |-> Value(0)]

\* popcount(hash_value_ ^ other.hash_value_)
hamming_distance(s1, s2) ==
    LET RECURSIVE PopcountXor(_, _)
        PopcountXor(x, y) ==
            IF x = 0 /\ y = 0 THEN 0
            ELSE (IF x % 2 # y % 2 THEN 1 ELSE 0) + PopcountXor(x \div 2, y \div 2)
    IN PopcountXor(s1.hash_value_, s2.hash_value_)

\* static_cast<size_t>((1.0 - threshold) * simhash_bits), threshold in quarters
hamming_threshold(quarters, simhash_bits) == ((4 - quarters) * simhash_bits) \div 4

\* ===================================================== ExactDeduplicator
EdConfigs == [algorithm : Algorithms, keep_first : BOOLEAN, parallel : BOOLEAN]
EmptyResult == [original_count |-> 0, original_indices |-> <<>>, duplicate_groups |-> <<>>]

\* group_by_hash: for i = 0..n-1, groups[hashes[i]].push_back(i)
group_by_hash(hashes) ==
    LET RECURSIVE From(_, _)
        From(i, groups) ==
            IF i > Len(hashes) THEN groups
            ELSE LET h == hashes[i]
                     g == IF h \in DOMAIN groups THEN Append(groups[h], i) ELSE <<i>>
                 IN From(i + 1, [k \in (DOMAIN groups) \cup {h} |->
                                    IF k = h THEN g ELSE groups[k]])
    IN From(1, << >>)

\* select_unique_documents: `order` is the iteration order of the unordered_map
select_unique_documents_swapped(groups, order, keep_first) ==
    LET picked == [k \in DOMAIN order |->
                      IF keep_first THEN Last(groups[order[k]]) ELSE Head(groups[order[k]])]
    IN IF keep_first THEN SortSeq(picked, <) ELSE picked
select_unique_documents(groups, order, keep_first) ==
    LET picked == [k \in DOMAIN order |->
                      IF keep_first THEN Head(groups[order[k]]) ELSE Last(groups[order[k]])]
    IN IF keep_first THEN SortSeq(picked, <) ELSE picked

\* position of the vector that a loop iteration writes: hashes[i] = ...
StoreAtNextFree(i, vec, none) == MinOf({k \in DOMAIN vec : vec[k] = none})
StorePosition(i, vec, none) == i

\* the groups with more than one member, in iteration order (add_duplicate_group)
RECURSIVE DuplicateGroups(_, _)
DuplicateGroups(groups, order) ==
    IF order = <<>> THEN <<>>
    ELSE LET g == groups[Head(order)]
         IN (IF Len(g) > 1 THEN <<g>> ELSE <<>>) \o DuplicateGroups(groups, Tail(order))

EdInit ==
    /\ ed_config \in EdConfigs
    /\ ed_stats = [total_processed_ |-> 0, unique_found_ |-> 0, duplicates_removed_ |-> 0]
    /\ ed_pc = "idle"
    /\ ed_documents = <<>>
    /\ ed_iter = <<>>
    /\ ed_local = <<>>
    /\ ed_hashes = <<>>
    /\ ed_result = EmptyResult

EdOff ==
    /\ ed_config = [algorithm |-> "MD5", keep_first |-> TRUE, parallel |-> FALSE]
    /\ ed_stats = [total_processed_ |-> 0, unique_found_ |-> 0, duplicates_removed_ |-> 0]
    /\ ed_pc = "off"
    /\ ed_documents = <<>>
    /\ ed_iter = <<>>
    /\ ed_local = <<>>
    /\ ed_hashes = <<>>
    /\ ed_result = EmptyResult

\* deduplicate(): entry, up to the start of the hash loop
ED_Deduplicate ==
    /\ ed_pc \in {"idle", "returned"}
    /\ \E documents \in DocLists :
        /\ ed_documents' = documents
        /\ IF documents = <<>>
           THEN /\ ed_result' = EmptyResult
                /\ ed_pc' = "returned"
                /\ ed_iter' = <<>>
                /\ ed_local' = <<>>
                /\ ed_hashes' = <<>>
                /\ UNCHANGED ed_stats
           ELSE /\ ed_stats' = [ed_stats EXCEPT !.total_processed_ = Len(documents)]
                /\ ed_result' = [EmptyResult EXCEPT !.original_count = Len(documents)]
                /\ ed_pc' = "hashing"
                /\ ed_iter' = [i \in DOMAIN documents |-> "pending"]
                /\ ed_local' = [i \in DOMAIN documents |-> NoHash]
                /\ ed_hashes' = IF ed_config.parallel /\ use_openmp
                                THEN [i \in DOMAIN documents |-> NoHash]
                                ELSE <<>>
    /\ UNCHANGED <<component, use_openmp, ed_config, ndVars, filterVars>>

\* compute_hashes_parallel under OpenMP: one iteration of the parallel for,
\* hashes[i] = compute_document_hash(documents[i]); iterations run in any order
ED_ParallelIteration(i) ==
    /\ ed_pc = "hashing"
    /\ ed_config.parallel /\ use_openmp
    /\ ed_iter[i] = "pending"
    /\ \E h \in compute_hash(ed_documents[i], ed_config.algorithm) :
        /\ ed_local' = [ed_local EXCEPT ![i] = h]
        /\ ed_hashes' = [ed_hashes EXCEPT ![StorePosition(i, ed_hashes, NoHash)] = h]
    /\ ed_iter' = [ed_iter EXCEPT ![i] = "stored"]
    /\ UNCHANGED <<component, use_openmp, ed_config, ed_stats, ed_pc, ed_documents, ed_result, ndVars, filterVars>>

\* compute_hashes_sequential: one pass of the range-for, push_back
ED_SequentialHash ==
    /\ ed_pc = "hashing"
    /\ ~(ed_config.parallel /\ use_openmp)
    /\ Len(ed_hashes) < Len(ed_documents)
    /\ LET i == Len(ed_hashes) + 1
       IN \E h \in compute_hash(ed_documents[i], ed_config.algorithm) :
            /\ ed_local' = [ed_local EXCEPT ![i] = h]
            /\ ed_hashes' = Append(ed_hashes, h)
            /\ ed_iter' = [ed_iter EXCEPT ![i] = "stored"]
    /\ UNCHANGED <<component, use_openmp, ed_config, ed_stats, ed_pc, ed_documents, ed_result, ndVars, filterVars>>

\* a call of hash_utils::xxhash64 that never returns
ED_XxhashNoReturn ==
    /\ ed_pc = "hashing"
    /\ ed_config.algorithm = "XXHASH64"
    /\ \E i \in DOMAIN ed_iter : ed_iter[i] = "pending"
    /\ ed_pc' = "no_return"
    /\ UNCHANGED <<component, use_openmp, ed_config, ed_stats, ed_documents, ed_iter,
                   ed_local, ed_hashes, ed_result, ndVars, filterVars>>

\* deduplicate(): group_by_hash, select_unique_documents, result and statistics
ED_Finish ==
    /\ ed_pc = "hashing"
    /\ \A i \in DOMAIN ed_iter : ed_iter[i] = "stored"
    /\ LET groups == group_by_hash(ed_hashes)
       IN \E order \in Orderings(DOMAIN groups) :
            LET unique_indices == select_unique_documents(groups, order, ed_config.keep_first)
            IN /\ ed_result' = [ed_result EXCEPT
                                    !.original_indices = unique_indices,
                                    !.duplicate_groups = DuplicateGroups(groups, order)]
               /\ ed_stats' = [ed_stats EXCEPT
                                    !.unique_found_ = Len(unique_indices),
                                    !.duplicates_removed_ =
                                        ed_stats.total_processed_ - Len(unique_indices)]
    /\ ed_pc' = "returned"
    /\ UNCHANGED <<component, use_openmp, ed_config, ed_documents, ed_iter, ed_local, ed_hashes, ndVars, filterVars>>

EdNext ==
    \/ ED_Deduplicate
    \/ \E i \in DOMAIN ed_iter : ED_ParallelIteration(i)
    \/ ED_SequentialHash
    \/ ED_XxhashNoReturn
    \/ ED_Finish

\* ====================================================== NearDeduplicator
NumPermutations == {8, 128}
NgramSizes == {2}
NdConfigs ==
    [method : {"MINHASH"}, threshold : {2, 4}, num_permutations : {128},
     ngram_size : NgramSizes, simhash_bits : {2}]
    \cup
    [method : {"MINHASH"}, threshold : {4}, num_permutations : {8},
     ngram_size : NgramSizes, simhash_bits : {2}]
    \cup
    [method : {"SIMHASH"}, threshold : {2, 4}, num_permutations : {128},
     ngram_size : NgramSizes, simhash_bits : {2}]

\* an element of `signatures` that no loop iteration has assigned yet
NoSignature == [unset |-> TRUE]

\* compute_minhash_signature: a fresh object, updated with every n-gram;
\* element_hashes[k] is what hash_utils::xxhash64 returned for n-gram k
RECURSIVE MinHashUpdateAll(_, _)
MinHashUpdateAll(sig, element_hashes) ==
    IF element_hashes = <<>> THEN sig
    ELSE MinHashUpdateAll(MinHashUpdate(sig, Head(element_hashes)), Tail(element_hashes))
\* the return values of xxhash64 for the n-grams of one of the documents
ElementHashings ==
    UNION {[1 .. Len(generate_ngrams(TextOf(t), n)) -> xxhash64(TextOf(t))] :
                t \in NearTexts, n \in NgramSizes}
\* compute_minhash_signature tabulated over its inputs (@@ and SubSeq make
\* the table and its signatures explicit values, evaluated once)
MinHashSignatures ==
    [num_permutations \in NumPermutations, seed \in Seeds, hs \in ElementHashings |->
        LET sig == MinHashUpdateAll(MinHashSignature(num_permutations, seed), hs)
        IN [sig EXCEPT !.signature_ = SubSeq(sig.signature_, 1, num_permutations)]] @@ << >>
compute_minhash_signature(seed, element_hashes, config) ==
    MinHashSignatures[config.num_permutations, seed, element_hashes]

compute_simhash_signature(token_hashes, config) ==
    SimHashCompute(config.simhash_bits, token_hashes)

\* the strings of a document that get hashed
HashedElements(text, config) ==
    IF config.method = "MINHASH" THEN generate_ngrams(TextOf(text), config.ngram_size)
    ELSE tokenize(TextOf(text))

\* every signature compute_*_signature can return for a document
SignaturesOf(text, config) ==
    LET elems == HashedElements(text, config)
        hashings == [DOMAIN elems -> UNION {xxhash64(elems[k]) : k \in DOMAIN elems}]
    IN IF config.method = "MINHASH"
       THEN {compute_minhash_signature(seed, hs, config) : seed \in Seeds, hs \in hashings}
       ELSE {compute_simhash_signature(hs, config) : hs \in hashings}

\* inner loop of find_similar_groups_lsh over the candidates, in the order
\* the unordered_set hands them out; `similar` holds the candidates c with
\* signatures[i].jaccard_similarity(signatures[c]) >= config_.threshold
RECURSIVE LshScan_unmarked(_, _, _, _)
LshScan_unmarked(candidates, similar, processed, similar_docs) ==
    IF candidates = <<>> THEN [similar_docs |-> similar_docs, processed |-> processed]
    ELSE LET candidate == Head(candidates)
         IN IF candidate \in similar
            THEN LshScan_unmarked(Tail(candidates), similar, processed,
                                  Append(similar_docs, candidate))
            ELSE LshScan_unmarked(Tail(candidates), similar, processed, similar_docs)
RECURSIVE LshScan(_, _, _, _)
LshScan(candidates, similar, processed, similar_docs) ==
    IF candidates = <<>> THEN [similar_docs |-> similar_docs, processed |-> processed]
    ELSE LET candidate == Head(candidates)
         IN IF processed[candidate]
            THEN LshScan(Tail(candidates), similar, processed, similar_docs)
            ELSE IF candidate \in similar
                 THEN LshScan(Tail(candidates), similar,
                              [processed EXCEPT ![candidate] = TRUE],
                              Append(similar_docs, candidate))
                 ELSE LshScan(Tail(candidates), similar, processed, similar_docs)

\* find_similar_groups_lsh from pass i of its second loop on: every value of
\* `groups` it can return, one per way the candidate sets are iterated.
\* query[i] is what lsh_index.query(signatures[i]) holds and similar[i] its
\* members that pass the threshold; neither depends on `processed`.
RECURSIVE LshGroupsFrom(_, _, _, _, _)
LshGroupsFrom(i, query, similar, processed, groups) ==
    IF i > Len(query) THEN {groups}
    ELSE IF processed[i]
         THEN LshGroupsFrom(i + 1, query, similar, processed, groups)
         ELSE UNION {LET r == LshScan(candidates, similar[i], processed, <<>>)
                     IN LshGroupsFrom(i + 1, query, similar, r.processed,
                                      IF Len(r.similar_docs) > 1
                                      THEN Append(groups, r.similar_docs)
                                      ELSE groups) : candidates \in Orderings(query[i])}
find_similar_groups_lsh(signatures, threshold) ==
    LET n == Len(signatures)
        band_tables_ == LshBuild(EmptyIndex, signatures, 1)
        query == SubSeq([i \in 1 .. n |-> LshQuery(band_tables_, signatures[i])], 1, n)
        similar == SubSeq([i \in 1 .. n |->
                            {c \in query[i] :
                                jaccard_at_least(signatures[i], signatures[c], threshold)}],
                          1, n)
    IN LshGroupsFrom(1, query, similar, [i \in 1 .. n |-> FALSE], <<>>)

\* inner loop of find_similar_groups_simhash, j = i+1 .. n-1
RECURSIVE SimhashScan(_, _, _, _, _, _)
SimhashScan(j, i, signatures, limit, processed, similar_docs) ==
    IF j > Len(signatures) THEN [similar_docs |-> similar_docs, processed |-> processed]
    ELSE IF processed[j]
         THEN SimhashScan(j + 1, i, signatures, limit, processed, similar_docs)
         ELSE IF hamming_distance(signatures[i], signatures[j]) <= limit
              THEN SimhashScan(j + 1, i, signatures, limit,
                               [processed EXCEPT ![j] = TRUE], Append(similar_docs, j))
              ELSE SimhashScan(j + 1, i, signatures, limit, processed, similar_docs)

\* find_similar_groups_simhash from pass i of its outer loop on
RECURSIVE SimhashGroupsFrom(_, _, _, _, _)
SimhashGroupsFrom(i, signatures, limit, processed, groups) ==
    IF i > Len(signatures) THEN groups
    ELSE IF processed[i]
         THEN SimhashGroupsFrom(i + 1, signatures, limit, processed, groups)
         ELSE LET r == SimhashScan(i + 1, i, signatures, limit,
                                   [processed EXCEPT ![i] = TRUE], <<i>>)
              IN SimhashGroupsFrom(i + 1, signatures, limit, r.processed,
                                   IF Len(r.similar_docs) > 1
                                   THEN Append(groups, r.similar_docs)
                                   ELSE groups)
find_similar_groups_simhash(signatures, threshold, simhash_bits) ==
    SimhashGroupsFrom(1, signatures, hamming_threshold(threshold, simhash_bits),
                      [i \in DOMAIN signatures |-> FALSE], <<>>)

\* deduplicate_minhash / deduplicate_simhash after the grouping: the first
\* member of every group, then the documents of no group in index order
GroupMembers(groups) == UNION {Range(groups[g]) : g \in DOMAIN groups}
select_unique_near(groups, n) ==
    LET RECURSIVE GroupHeads(_)
        GroupHeads(gs) ==
            IF gs = <<>> THEN <<>>
            ELSE (IF Head(gs) = <<>> THEN <<>> ELSE <<Head(gs)[1]>>) \o GroupHeads(Tail(gs))
        RECURSIVE Unprocessed(_, _)
        Unprocessed(i, members) ==
            IF i > n THEN <<>>
            ELSE (IF i \in members THEN <<>> ELSE <<i>>) \o Unprocessed(i + 1, members)
    IN GroupHeads(groups) \o Unprocessed(1, GroupMembers(groups))

NdInit ==
    /\ nd_config \in NdConfigs
    /\ nd_pc = "idle"
    /\ nd_documents = <<>>
    /\ nd_iter = <<>>
    /\ nd_local = <<>>
    /\ nd_signatures = <<>>
    /\ nd_result = EmptyResult

NdOff ==
    /\ nd_config = [method |-> "SIMHASH", threshold |-> 4, num_permutations |-> 128,
                    ngram_size |-> 2, simhash_bits |-> 2]
    /\ nd_pc = "off"
    /\ nd_documents = <<>>
    /\ nd_iter = <<>>
    /\ nd_local = <<>>
    /\ nd_signatures = <<>>
    /\ nd_result = EmptyResult

\* deduplicate(): entry, up to the start of the signature loop.  The call
\* writes no member of the object, so a second call on the same object starts
\* from the state of the first: one call per object is modelled.
ND_Deduplicate ==
    /\ nd_pc = "idle"
    /\ \E documents \in NearDocLists :
        /\ nd_documents' = documents
        /\ nd_result' = [EmptyResult EXCEPT !.original_count = Len(documents)]
        /\ nd_pc' = IF documents = <<>> THEN "returned" ELSE "signatures"
        /\ nd_iter' = [i \in DOMAIN documents |-> "pending"]
        /\ nd_local' = [i \in DOMAIN documents |-> NoSignature]
        /\ nd_signatures' = [i \in DOMAIN documents |-> NoSignature]
    /\ UNCHANGED <<component, use_openmp, nd_config, edVars, filterVars>>

\* one iteration of compute_*_signatures_parallel:
\* signatures[i] = compute_*_signature(documents[i])
NdIteration(i) ==
    /\ nd_pc = "signatures"
    /\ nd_iter[i] = "pending"
    /\ \E sig \in SignaturesOf(nd_documents[i], nd_config) :
        /\ nd_local' = [nd_local EXCEPT ![i] = sig]
        /\ nd_signatures' = [nd_signatures EXCEPT
                                ![StorePosition(i, nd_signatures, NoSignature)] = sig]
    /\ nd_iter' = [nd_iter EXCEPT ![i] = "stored"]
    /\ UNCHANGED <<component, use_openmp, nd_config, nd_pc, nd_documents, nd_result, edVars, filterVars>>

\* the loop under #pragma omp parallel for: iterations in any order
ND_ParallelIteration(i) == use_openmp /\ NdIteration(i)

\* the loop of the build without OpenMP: iterations in index order
ND_SequentialIteration ==
    /\ ~use_openmp
    /\ \E i \in DOMAIN nd_iter :
        /\ \A k \in 1 .. (i - 1) : nd_iter[k] = "stored"
        /\ NdIteration(i)

\* a call of hash_utils::xxhash64 that never returns
ND_XxhashNoReturn ==
    /\ nd_pc = "signatures"
    /\ \E i \in DOMAIN nd_iter :
        nd_iter[i] = "pending" /\ HashedElements(nd_documents[i], nd_config) # <<>>
    /\ nd_pc' = "no_return"
    /\ UNCHANGED <<component, use_openmp, nd_config, nd_documents, nd_iter, nd_local,
                   nd_signatures, nd_result, edVars, filterVars>>

\* LSHIndex::insert on a signature shorter than the bands reach: the vector
\* is built from an iterator behind end(); the call throws or the process dies
ND_BandOutOfRange ==
    /\ nd_pc = "signatures"
    /\ nd_config.method = "MINHASH"
    /\ \A i \in DOMAIN nd_iter : nd_iter[i] = "stored"
    /\ BandOutOfRange(nd_config.num_permutations)
    /\ nd_pc' \in {"length_error", "crashed"}
    /\ UNCHANGED <<component, use_openmp, nd_config, nd_documents, nd_iter, nd_local,
                   nd_signatures, nd_result, edVars, filterVars>>

\* deduplicate_minhash after the signatures: find_similar_groups_lsh and the
\* assembly of the result
ND_FinishMinhash ==
    /\ nd_pc = "signatures"
    /\ nd_config.method = "MINHASH"
    /\ \A i \in DOMAIN nd_iter : nd_iter[i] = "stored"
    /\ ~BandOutOfRange(nd_config.num_permutations)
    /\ \E similar_groups \in find_similar_groups_lsh(nd_signatures, nd_config.threshold) :
        nd_result' = [nd_result EXCEPT
                        !.original_indices =
                            select_unique_near(similar_groups, Len(nd_documents)),
                        !.duplicate_groups = similar_groups]
    /\ nd_pc' = "returned"
    /\ UNCHANGED <<component, use_openmp, nd_config, nd_documents, nd_iter, nd_local,
                   nd_signatures, edVars, filterVars>>

\* deduplicate_simhash after the signatures: find_similar_groups_simhash and
\* the assembly of the result
ND_FinishSimhash ==
    /\ nd_pc = "signatures"
    /\ nd_config.method = "SIMHASH"
    /\ \A i \in DOMAIN nd_iter : nd_iter[i] = "stored"
    /\ LET similar_groups == find_similar_groups_simhash(nd_signatures, nd_config.threshold,
                                                        nd_config.simhash_bits)
       IN nd_result' = [nd_result EXCEPT
                            !.original_indices =
                                select_unique_near(similar_groups, Len(nd_documents)),
                            !.duplicate_groups = similar_groups]
    /\ nd_pc' = "returned"
    /\ UNCHANGED <<component, use_openmp, nd_config, nd_documents, nd_iter, nd_local,
                   nd_signatures, edVars, filterVars>>

NdNext ==
    \/ ND_Deduplicate
    \/ \E i \in DOMAIN nd_iter : ND_ParallelIteration(i)
    \/ ND_SequentialIteration
    \/ ND_XxhashNoReturn
    \/ ND_BandOutOfRange
    \/ ND_FinishMinhash
    \/ ND_FinishSimhash

\* ============================================================ LicenseFilter
\* Strings are sequences of tokens; find and substr act on whole tokens.  A
\* URL is [scheme] ["www."] host [path], a text is a sequence of phrases.
MaxEvals == 2

Urls ==
    {<<"http://", "github.com", "/x">>, <<"http://", "www.", "b.com", "/x">>, <<"www.", "b.com">>}
\* arguments of add_opt_out_request
DomainArgs == {<<"github.com">>, <<"b.com">>, <<"www.", "b.com">>}
LfTexts == {<<"©">>, <<"CC BY-SA">>, <<"subscribe">>}
LfDocs == [id : {"doc1"}, url : Urls, text : LfTexts]

\* find() returns the first matching position, 0 stands for npos
extract_domain_from_url(url) ==
    LET FirstAt(hits) == IF hits = {} THEN 0 ELSE MinOf(hits)
        start == FirstAt({k \in DOMAIN url : url[k] = "http://"})
        slash == FirstAt({k \in DOMAIN url : k > start /\ url[k] \in {"http://", "/x"}})
        end == IF slash = 0 THEN Len(url) + 1 ELSE slash
        domain == SubSeq(url, start + 1, end - 1)
    IN IF start = 0 THEN url
       ELSE IF domain # <<>> /\ Head(domain) = "www." THEN Tail(domain) ELSE domain

\* ::tolower over the text
LowerText(text) ==
    LET LowerToken(tok) ==
            CASE tok = "CC BY-SA" -> "cc by-sa"
              [] tok = "MIT License" -> "mit license"
              [] OTHER -> tok
    IN [k \in DOMAIN text |-> LowerToken(text[k])]

\* text.find(needle) != npos
TextFind(text, needle) ==
    \E k \in DOMAIN text :
        \/ text[k] = needle
        \/ needle = "cc by" /\ text[k] \in {"cc by-sa", "cc by-nc", "cc by-nd"}

detect_creative_commons_license(text) ==
    LET lower_text == LowerText(text)
    IN IF TextFind(lower_text, "cc0") THEN "CREATIVE_COMMONS_0"
       ELSE IF TextFind(lower_text, "cc by-sa") THEN "CREATIVE_COMMONS_BY_SA"
       ELSE IF TextFind(lower_text, "cc by-nc") THEN "CREATIVE_COMMONS_BY_NC"
       ELSE IF TextFind(lower_text, "cc by-nd") THEN "CREATIVE_COMMONS_BY_ND"
       ELSE IF TextFind(lower_text, "cc by") THEN "CREATIVE_COMMONS_BY"
       ELSE "UNKNOWN"

detect_standard_license(text) ==
    LET lower_text == LowerText(text)
    IN IF TextFind(lower_text, "mit license") THEN "MIT"
       ELSE IF TextFind(lower_text, "apache license") THEN "APACHE_2"
       ELSE IF TextFind(lower_text, "gpl")
            THEN IF TextFind(lower_text, "version 3") \/ TextFind(lower_text, "v3")
                 THEN "GPL_V3" ELSE "GPL_V2"
       ELSE IF TextFind(lower_text, "bsd")
            THEN IF TextFind(lower_text, "3-clause") THEN "BSD_3_CLAUSE" ELSE "BSD_2_CLAUSE"
       ELSE "UNKNOWN"

detect_license(text) ==
    LET lower_text == LowerText(text)
    IN IF TextFind(lower_text, "creative commons") \/ TextFind(lower_text, "cc by")
       THEN detect_creative_commons_license(text)
       ELSE IF TextFind(lower_text, "public domain") \/ TextFind(lower_text, "cc0")
       THEN "PUBLIC_DOMAIN"
       ELSE detect_standard_license(text)

load_common_allowed_domains ==
    {<<"wikipedia.org">>, <<"wikimedia.org">>, <<"archive.org">>, <<"gutenberg.org">>,
     <<"openlibrary.org">>, <<"commons.wikimedia.org">>, <<"github.com">>,
     <<"stackoverflow.com">>, <<"reddit.com">>, <<"arxiv.org">>}
load_creative_commons_domains ==
    {<<"creativecommons.org">>, <<"flickr.com">>, <<"commons.wikimedia.org">>,
     <<"openclipart.org">>, <<"freesound.org">>}
load_public_domain_domains ==
    {<<"gutenberg.org">>, <<"archive.org">>, <<"loc.gov">>, <<"nasa.gov">>, <<"nih.gov">>,
     <<"cdc.gov">>}

\* LicenseFilterConfig(): confidence_threshold in tenths
LicenseFilterConfig ==
    [allowed_licenses |-> {"PUBLIC_DOMAIN", "CREATIVE_COMMONS_0", "CREATIVE_COMMONS_BY",
                           "CREATIVE_COMMONS_BY_SA"},
     allowed_domains |-> {}, blocked_domains |-> {}, paywalled_domains |-> {},
     creative_commons_domains |-> {}, public_domain_domains |-> {},
     strict_mode |-> FALSE, confidence_threshold |-> 7]

create_strict_config ==
    [LicenseFilterConfig EXCEPT
        !.strict_mode = TRUE, !.confidence_threshold = 8,
        !.allowed_licenses = {"PUBLIC_DOMAIN", "CREATIVE_COMMONS_0", "CREATIVE_COMMONS_BY"}]

\* the configurations a caller passes in
LfConfigs ==
    {LicenseFilterConfig, create_strict_config,
     [LicenseFilterConfig EXCEPT !.allowed_domains = {<<"b.com">>},
                                 !.paywalled_domains = {<<"github.com">>}],
     [LicenseFilterConfig EXCEPT !.allowed_licenses = {"MIT"},
                                 !.blocked_domains = {<<"b.com">>}]}

initialize_default_domains(config) ==
    [config EXCEPT
        !.allowed_domains =
            IF @ = {} THEN load_common_allowed_domains ELSE @,
        !.creative_commons_domains =
            IF @ = {} THEN load_creative_commons_domains ELSE @,
        !.public_domain_domains =
            IF @ = {} THEN load_public_domain_domains ELSE @]

\* no operation of the class writes removal_requests_
removal_requests_ == {}

is_opted_out_unless_allowlisted(domain) ==
    domain \in lf_opted_out_domains /\ domain \notin lf_config.allowed_domains
is_opted_out(domain) == domain \in lf_opted_out_domains
requires_removal(content_id) == content_id \in removal_requests_

is_domain_allowed(domain) ==
    \/ lf_config.allowed_domains = {}
    \/ domain \in lf_config.allowed_domains
    \/ domain \in lf_config.creative_commons_domains
    \/ domain \in lf_config.public_domain_domains

has_valid_license(license) == license \in lf_config.allowed_licenses

is_paywalled(doc) ==
    \/ extract_domain_from_url(doc.url) \in lf_config.paywalled_domains
    \/ LET lower_text == LowerText(doc.text)
       IN \/ TextFind(lower_text, "subscribe")
          \/ TextFind(lower_text, "paywall")
          \/ TextFind(lower_text, "premium content")
          \/ TextFind(lower_text, "members only")

\* in tenths
calculate_compliance_confidence(assessment) ==
    LET c1 == 5 + (IF assessment.detected_license # "UNKNOWN" THEN 3 ELSE 0)
        c2 == c1 + (IF assessment.is_from_allowed_domain THEN 2 ELSE 0)
        c3 == c2 - (IF assessment.has_copyright_notice /\ assessment.detected_license = "UNKNOWN"
                    THEN 3 ELSE 0)
        c4 == c3 - (IF assessment.is_paywalled THEN 4 ELSE 0)
    IN Clamp(0, 10, c4)

\* has_copyright_notice: find_copyright_notices(text) is not empty
assess_copyright(doc) ==
    LET domain == extract_domain_from_url(doc.url)
        assessment ==
            [is_from_allowed_domain |-> is_domain_allowed(domain),
             has_copyright_notice |-> TextFind(doc.text, "©"),
             detected_license |-> detect_license(doc.text),
             is_paywalled |-> is_paywalled(doc),
             has_opt_out_signal |-> is_opted_out(domain),
             requires_removal |-> requires_removal(doc.id),
             compliance_confidence |-> 0]
    IN [assessment EXCEPT
           !.compliance_confidence = calculate_compliance_confidence(assessment)]

evaluate_blocked_before_allowlist(doc) ==
    LET domain == extract_domain_from_url(doc.url)
        reason ==
            IF requires_removal(doc.id) THEN "Content removal requested"
            ELSE IF is_opted_out(domain) THEN "Domain opted out"
            ELSE IF domain \in lf_config.blocked_domains THEN "Domain blocked"
            ELSE IF lf_config.allowed_domains # {} /\ ~is_domain_allowed(domain)
                 THEN "Domain not in allowlist"
            ELSE IF is_paywalled(doc) THEN "Content is paywalled"
            ELSE IF /\ ~has_valid_license(detect_license(doc.text))
                    /\ (lf_config.strict_mode \/ TextFind(doc.text, "©"))
                 THEN "License not allowed"
            ELSE IF /\ assess_copyright(doc).compliance_confidence
                           < lf_config.confidence_threshold
                    /\ lf_config.strict_mode
                 THEN "License compliance confidence too low"
            ELSE ""
    IN [filter_name |-> "LicenseFilter",
        confidence |-> assess_copyright(doc).compliance_confidence,
        result |-> IF reason = "" THEN "KEEP" ELSE "REJECT",
        details |-> IF reason = "" THEN "License compliant" ELSE reason]

\* evaluate() up to the decision.  The code runs its checks in this order,
\* each one setting keep = false and overwriting reason: the opt-out and the
\* removal check run unconditionally (so of the two the removal reason is the
\* one that stays), every later check only while keep is still true.
evaluate(doc) ==
    LET domain == extract_domain_from_url(doc.url)
        reason ==
            IF requires_removal(doc.id) THEN "Content removal requested"
            ELSE IF is_opted_out(domain) THEN "Domain opted out"
            ELSE IF lf_config.allowed_domains # {} /\ ~is_domain_allowed(domain)
                 THEN "Domain not in allowlist"
            ELSE IF domain \in lf_config.blocked_domains THEN "Domain blocked"
            ELSE IF is_paywalled(doc) THEN "Content is paywalled"
            ELSE IF /\ ~has_valid_license(detect_license(doc.text))
                    /\ (lf_config.strict_mode \/ TextFind(doc.text, "©"))
                 THEN "License not allowed"
            ELSE IF /\ assess_copyright(doc).compliance_confidence
                           < lf_config.confidence_threshold
                    /\ lf_config.strict_mode
                 THEN "License compliance confidence too low"
            ELSE ""
    IN [filter_name |-> "LicenseFilter",
        confidence |-> assess_copyright(doc).compliance_confidence,
        result |-> IF reason = "" THEN "KEEP" ELSE "REJECT",
        details |-> IF reason = "" THEN "License compliant" ELSE reason]

\* update_stats: the decision counters (the per-license and per-signal
\* counters are written here and read by print_compliance_report only)
lf_update_stats(stats, result) ==
    [total_processed |-> stats.total_processed + 1,
     kept |-> stats.kept + (IF result = "KEEP" THEN 1 ELSE 0),
     rejected |-> stats.rejected + (IF result = "KEEP" THEN 0 ELSE 1)]

LicenseFilterStats == [total_processed |-> 0, kept |-> 0, rejected |-> 0]

\* LicenseFilter() = default, or LicenseFilter(config)
LfInit ==
    /\ \/ lf_config = LicenseFilterConfig /\ lf_given_allowlist = {}
       \/ \E config \in LfConfigs :
            /\ lf_config = initialize_default_domains(config)
            /\ lf_given_allowlist = config.allowed_domains
    /\ lf_opted_out_domains = {}
    /\ lf_stats = LicenseFilterStats
    /\ lf_requested = {}
    /\ lf_later = {}
    /\ lf_last = [evaluated |-> FALSE]

LfOff ==
    /\ lf_config = LicenseFilterConfig
    /\ lf_given_allowlist = {}
    /\ lf_opted_out_domains = {}
    /\ lf_stats = LicenseFilterStats
    /\ lf_requested = {}
    /\ lf_later = {}
    /\ lf_last = [evaluated |-> FALSE]

\* history: the call op is recorded when it follows an opt-out request
Later(op) == IF lf_requested = {} THEN lf_later ELSE lf_later \cup {op}

LF_Evaluate ==
    /\ lf_stats.total_processed < MaxEvals
    /\ \E doc \in LfDocs :
        LET decision == evaluate(doc)
        IN /\ lf_stats' = lf_update_stats(lf_stats, decision.result)
           /\ lf_last' = [evaluated |-> TRUE, doc |-> doc, decision |-> decision,
                          requested |-> extract_domain_from_url(doc.url) \in lf_requested,
                          later |-> lf_later]
    /\ UNCHANGED <<lf_config, lf_opted_out_domains, lf_requested, lf_later,
                   lf_given_allowlist>>
    /\ UNCHANGED <<component, use_openmp, edVars, ndVars, mqVars, opVars, dfVars, pfVars, stVars, hpVars, lgVars, tuVars, dmVars>>

LF_AddOptOutRequest ==
    /\ \E domain \in DomainArgs :
        /\ lf_opted_out_domains' = lf_opted_out_domains \cup {domain}
        /\ lf_requested' = lf_requested \cup {domain}
    /\ UNCHANGED <<lf_config, lf_stats, lf_later, lf_last, lf_given_allowlist>>
    /\ UNCHANGED <<component, use_openmp, edVars, ndVars, mqVars, opVars, dfVars, pfVars, stVars, hpVars, lgVars, tuVars, dmVars>>

LF_SetLicenseConfig ==
    /\ \E config \in LfConfigs :
        /\ lf_config' = initialize_default_domains(config)
        /\ lf_given_allowlist' = config.allowed_domains
    /\ lf_later' = Later("set_license_config")
    /\ UNCHANGED <<lf_opted_out_domains, lf_stats, lf_requested, lf_last>>
    /\ UNCHANGED <<component, use_openmp, edVars, ndVars, mqVars, opVars, dfVars, pfVars, stVars, hpVars, lgVars, tuVars, dmVars>>

LF_Configure ==
    /\ lf_config' = IF lf_config.allowed_domains = {}
                    THEN initialize_default_domains(lf_config) ELSE lf_config
    /\ lf_later' = Later("configure")
    /\ UNCHANGED <<lf_opted_out_domains, lf_stats, lf_requested, lf_last, lf_given_allowlist>>
    /\ UNCHANGED <<component, use_openmp, edVars, ndVars, mqVars, opVars, dfVars, pfVars, stVars, hpVars, lgVars, tuVars, dmVars>>

LF_ResetStats ==
    /\ lf_stats' = LicenseFilterStats
    /\ lf_later' = Later("reset_stats")
    /\ UNCHANGED <<lf_config, lf_opted_out_domains, lf_requested, lf_last,
                   lf_given_allowlist>>
    /\ UNCHANGED <<component, use_openmp, edVars, ndVars, mqVars, opVars, dfVars, pfVars, stVars, hpVars, lgVars, tuVars, dmVars>>

LfNext ==
    \/ LF_Evaluate
    \/ LF_AddOptOutRequest
    \/ LF_SetLicenseConfig
    \/ LF_Configure
    \/ LF_ResetStats

\* ========================================================= ModelQualityFilter
\* Scores and confidences are in thousandths, a quality_score is the exact
\* fraction num / den of thousandths, weights are in tenths.
MaxModels == 2

ModelTypes == {"FASTTEXT_CLASSIFIER", "PERPLEXITY"}
\* "research study analysis", "click free money 123456!"
MqTexts == {"research", "clickbait"}

Score(num, den) == [num |-> num, den |-> den]
ScoreLess(score, threshold) == score.num < threshold * score.den

\* QualityPrediction()
QualityPrediction ==
    [model_name |-> "", quality_score |-> Score(0, 1), confidence |-> 0, perplexity |-> 0]

\* calculate_perplexity gives 10.0 and 23.75 on the two texts;
\* perplexity_to_quality_score divides by max_perplexity = 50
PerplexityModel_predict(model, text) ==
    LET perplexity == IF text = "research" THEN 10000 ELSE 23750
        normalized == Clamp(0, 1000, 1000 - perplexity \div 50)
    IN IF ~model.loaded
       THEN [model_name |-> "PerplexityModel", quality_score |-> Score(0, 1),
             confidence |-> 0, perplexity |-> 1000000]
       ELSE [model_name |-> "PerplexityModel", quality_score |-> Score(normalized, 1),
             confidence |-> 800, perplexity |-> perplexity]

\* SimpleQualityClassifier::classify gives 0.45 and 0.1 on the two texts
FastTextQualityModel_predict(model, text) ==
    LET classify == IF text = "research" THEN 450 ELSE 100
    IN IF ~model.loaded
       THEN [model_name |-> "FastTextQualityModel", quality_score |-> Score(0, 1),
             confidence |-> 0, perplexity |-> 0]
       ELSE [model_name |-> "FastTextQualityModel", quality_score |-> Score(classify, 1),
             confidence |-> 700, perplexity |-> 0]

predict(model, text) ==
    IF model.type = "PERPLEXITY" THEN PerplexityModel_predict(model, text)
    ELSE FastTextQualityModel_predict(model, text)

\* ModelFilterConfig: the members evaluate() reads
ModelFilterConfig ==
    [multistage_config |->
        [enabled |-> TRUE, stage_order |-> <<"FASTTEXT_CLASSIFIER", "PERPLEXITY">>,
         stage_thresholds |-> <<300, 700>>, short_circuit |-> TRUE],
     cache_predictions |-> TRUE,
     fasttext_quality_threshold |-> 700, perplexity_weight |-> 10, fasttext_weight |-> 15]
MqConfigs ==
    {ModelFilterConfig,
     [ModelFilterConfig EXCEPT !.multistage_config.enabled = FALSE],
     [ModelFilterConfig EXCEPT !.multistage_config.enabled = FALSE,
                               !.cache_predictions = FALSE]}

\* predictions of single models have den = 1
combine_scores(predictions) ==
    LET Weight(pred) ==
            (IF pred.model_name = "PerplexityModel" THEN mq_config.perplexity_weight
             ELSE mq_config.fasttext_weight) * pred.confidence
        RECURSIVE WeightedSum(_)
        WeightedSum(preds) ==
            IF preds = <<>> THEN 0
            ELSE Head(preds).quality_score.num * Weight(Head(preds)) + WeightedSum(Tail(preds))
        RECURSIVE TotalWeight(_)
        TotalWeight(preds) ==
            IF preds = <<>> THEN 0 ELSE Weight(Head(preds)) + TotalWeight(Tail(preds))
    IN IF predictions = <<>> THEN Score(0, 1)
       ELSE IF TotalWeight(predictions) > 0
       THEN Score(WeightedSum(predictions), TotalWeight(predictions))
       ELSE Score(0, 1)

\* ensemble_predict, the loop over models_: the predictions of the loaded models
loaded_predictions(text) ==
    LET RECURSIVE Loaded(_)
        Loaded(models) ==
            IF models = <<>> THEN <<>>
            ELSE (IF Head(models).loaded THEN <<predict(Head(models), text)>> ELSE <<>>)
                 \o Loaded(Tail(models))
    IN Loaded(mq_models)

\* ensemble_predict past the cache lookup: what the registered, loaded models
\* compute for the text under model_config_
ensemble_compute(text) ==
    LET RECURSIVE TotalConfidence(_)
        TotalConfidence(preds) ==
            IF preds = <<>> THEN 0 ELSE Head(preds).confidence + TotalConfidence(Tail(preds))
        RECURSIVE FirstPerplexity(_)
        FirstPerplexity(preds) ==
            IF preds = <<>> THEN 0
            ELSE IF Head(preds).perplexity > 0 THEN Head(preds).perplexity
            ELSE FirstPerplexity(Tail(preds))
        predictions == loaded_predictions(text)
    IN IF predictions = <<>> THEN QualityPrediction
       ELSE [model_name |-> "Ensemble",
             quality_score |-> combine_scores(predictions),
             confidence |-> TotalConfidence(predictions) \div Len(predictions),
             perplexity |-> FirstPerplexity(predictions)]

\* ensemble_predict: the prediction returned and the cache afterwards.  The
\* cache key is built from the text and the constant "ensemble".
ensemble_predict(text) ==
    IF mq_models = <<>> THEN [pred |-> QualityPrediction, cache |-> mq_cache]
    ELSE IF mq_config.cache_predictions /\ text \in DOMAIN mq_cache
    THEN [pred |-> mq_cache[text], cache |-> mq_cache]
    ELSE IF loaded_predictions(text) = <<>>
    THEN [pred |-> QualityPrediction, cache |-> mq_cache]
    ELSE [pred |-> ensemble_compute(text),
          cache |-> IF mq_config.cache_predictions
                    THEN [t \in DOMAIN mq_cache \cup {text} |->
                             IF t = text THEN ensemble_compute(text) ELSE mq_cache[t]]
                    ELSE mq_cache]

score_to_filter_result(quality_score, threshold) ==
    IF ~ScoreLess(quality_score, threshold) THEN "KEEP" ELSE "REJECT"

should_short_circuit(prediction, stage_index) ==
    IF stage_index > Len(mq_config.multistage_config.stage_thresholds) THEN FALSE
    ELSE ScoreLess(prediction.quality_score,
                   mq_config.multistage_config.stage_thresholds[stage_index])

\* update_stats: the decision counters (the per-model averages, the
\* perplexity statistics and the histogram are written here and read by the
\* reports only)
mq_update_stats(stats, result) ==
    [total_processed |-> stats.total_processed + 1,
     kept |-> stats.kept + (IF result = "KEEP" THEN 1 ELSE 0),
     rejected |-> stats.rejected + (IF result = "REJECT" THEN 1 ELSE 0)]

\* multi_stage_evaluate: [result, pred, cache]; a stage's prediction is that
\* of the first loaded model of the stage's type
multi_stage_evaluate(text) ==
    LET stages == mq_config.multistage_config.stage_order
        thresholds == mq_config.multistage_config.stage_thresholds
        StagePrediction(stage_type) ==
            LET hits == {k \in DOMAIN mq_models :
                            mq_models[k].type = stage_type /\ mq_models[k].loaded}
            IN IF hits = {} THEN QualityPrediction ELSE predict(mq_models[MinOf(hits)], text)
        RECURSIVE From(_)
        From(i) ==
            IF i > Len(stages) \/ i > Len(thresholds)
            THEN LET final == ensemble_predict(text)
                 IN [result |-> score_to_filter_result(final.pred.quality_score, 500),
                     pred |-> final.pred, cache |-> final.cache]
            ELSE LET prediction == StagePrediction(stages[i])
                 IN IF /\ mq_config.multistage_config.short_circuit
                       /\ should_short_circuit(prediction, i)
                    THEN [result |-> "REJECT", pred |-> prediction, cache |-> mq_cache]
                    ELSE From(i + 1)
    IN From(1)

\* evaluate(): [result, pred, cache]
mq_evaluate(text) ==
    LET ensemble == ensemble_predict(text)
        threshold == IF mq_models # <<>> /\ mq_models[1].type = "FASTTEXT_CLASSIFIER"
                     THEN mq_config.fasttext_quality_threshold ELSE 500
    IN IF mq_config.multistage_config.enabled THEN multi_stage_evaluate(text)
       ELSE [result |-> IF mq_models # <<>>
                        THEN score_to_filter_result(ensemble.pred.quality_score, threshold)
                        ELSE "UNKNOWN",
             pred |-> ensemble.pred, cache |-> ensemble.cache]

ModelFilterStats == [total_processed |-> 0, kept |-> 0, rejected |-> 0]

MqInit ==
    /\ mq_config \in MqConfigs
    /\ mq_models = <<>>
    /\ mq_cache = << >>
    /\ mq_stats = ModelFilterStats
    /\ mq_last = [evaluated |-> FALSE]

MqOff ==
    /\ mq_config = ModelFilterConfig
    /\ mq_models = <<>>
    /\ mq_cache = << >>
    /\ mq_stats = ModelFilterStats
    /\ mq_last = [evaluated |-> FALSE]

MQ_Evaluate ==
    /\ mq_stats.total_processed < MaxEvals
    /\ \E text \in MqTexts :
        LET outcome == mq_evaluate(text)
        IN /\ mq_cache' = outcome.cache
           /\ mq_stats' = mq_update_stats(mq_stats, outcome.result)
           /\ mq_last' = [evaluated |-> TRUE, text |-> text, result |-> outcome.result,
                          confidence |-> outcome.pred.confidence,
                          quality_score |-> outcome.pred.quality_score,
                          multistage |-> mq_config.multistage_config.enabled,
                          fresh |-> ensemble_compute(text)]
    /\ UNCHANGED <<mq_config, mq_models>>
    /\ UNCHANGED <<component, use_openmp, edVars, ndVars, lfVars, opVars, dfVars, pfVars, stVars, hpVars, lgVars, tuVars, dmVars>>

MQ_SetModelConfig ==
    /\ \E config \in MqConfigs : mq_config' = config
    /\ UNCHANGED <<mq_models, mq_cache, mq_stats, mq_last>>
    /\ UNCHANGED <<component, use_openmp, edVars, ndVars, lfVars, opVars, dfVars, pfVars, stVars, hpVars, lgVars, tuVars, dmVars>>

\* the constructors of the models load them
MQ_AddModel ==
    /\ Len(mq_models) < MaxModels
    /\ \E type \in ModelTypes :
        mq_models' = Append(mq_models, [type |-> type, loaded |-> TRUE])
    /\ UNCHANGED <<mq_config, mq_cache, mq_stats, mq_last>>
    /\ UNCHANGED <<component, use_openmp, edVars, ndVars, lfVars, opVars, dfVars, pfVars, stVars, hpVars, lgVars, tuVars, dmVars>>

MQ_LoadAllModels ==
    /\ mq_models' = [k \in DOMAIN mq_models |-> [mq_models[k] EXCEPT !.loaded = TRUE]]
    /\ UNCHANGED <<mq_config, mq_cache, mq_stats, mq_last>>
    /\ UNCHANGED <<component, use_openmp, edVars, ndVars, lfVars, opVars, dfVars, pfVars, stVars, hpVars, lgVars, tuVars, dmVars>>

MQ_UnloadAllModels ==
    /\ mq_models' = [k \in DOMAIN mq_models |-> [mq_models[k] EXCEPT !.loaded = FALSE]]
    /\ UNCHANGED <<mq_config, mq_cache, mq_stats, mq_last>>
    /\ UNCHANGED <<component, use_openmp, edVars, ndVars, lfVars, opVars, dfVars, pfVars, stVars, hpVars, lgVars, tuVars, dmVars>>

MQ_ResetStats ==
    /\ mq_stats' = ModelFilterStats
    /\ UNCHANGED <<mq_config, mq_models, mq_cache, mq_last>>
    /\ UNCHANGED <<component, use_openmp, edVars, ndVars, lfVars, opVars, dfVars, pfVars, stVars, hpVars, lgVars, tuVars, dmVars>>

MqNext ==
    \/ MQ_Evaluate
    \/ MQ_SetModelConfig
    \/ MQ_AddModel
    \/ MQ_LoadAllModels
    \/ MQ_UnloadAllModels
    \/ MQ_ResetStats

\* ====================================================== filter orchestrator
\* QualityProcessor / ContentProcessor: assess_document as section 4.C of the
\* specification describes it.  Confidences are in tenths.
MaxFilters == 2

\* enum FilterResult of the two libraries
FilterResult(kind) ==
    IF kind = "quality" THEN {"KEEP", "REJECT", "UNKNOWN"}
    ELSE {"KEEP", "REJECT", "SANITIZE", "UNKNOWN"}

\* QualityAssessment() / ContentAssessment()
NewAssessment == [final_result |-> "UNKNOWN", overall_score |-> 0, filter_decisions |-> <<>>]

OpConfigs ==
    [kind : {"quality", "content"}, strict_mode : BOOLEAN, sanitize_mode : BOOLEAN,
     critical_threshold : {5, 10}, rejection_threshold : {7}]

\* a failed filter reports Unknown with confidence 0
FilterDecisions(kind) ==
    {d \in [result : FilterResult(kind), confidence : {0, 5, 10}] :
        d.result = "UNKNOWN" => d.confidence = 0}

\* Unknown decisions do not contribute to the score
calculate_overall_score(decisions) ==
    LET RECURSIVE ConfidenceSum(_)
        ConfidenceSum(ds) ==
            IF ds = <<>> THEN 0
            ELSE (IF Head(ds).result = "UNKNOWN" THEN 0 ELSE Head(ds).confidence)
                 + ConfidenceSum(Tail(ds))
        counted == Cardinality({k \in DOMAIN decisions : decisions[k].result # "UNKNOWN"})
    IN IF counted = 0 THEN 0 ELSE ConfidenceSum(decisions) \div counted

make_final_decision_unknown_if_neutral(decisions, config) ==
    IF \A k \in DOMAIN decisions : decisions[k].result = "UNKNOWN" THEN "UNKNOWN"
    ELSE IF \E k \in DOMAIN decisions : decisions[k].result = "REJECT" THEN "REJECT"
    ELSE "KEEP"

\* a Reject contributes 1 - confidence to the danger accumulator
make_final_decision(decisions, config) ==
    LET RECURSIVE Danger(_)
        Danger(ds) ==
            IF ds = <<>> THEN 0
            ELSE (IF Head(ds).result = "REJECT" THEN 10 - Head(ds).confidence ELSE 0)
                 + Danger(Tail(ds))
    IN IF \/ \E k \in DOMAIN decisions :
                /\ decisions[k].result = "REJECT"
                /\ decisions[k].confidence >= config.critical_threshold
          \/ Danger(decisions) > config.rejection_threshold
       THEN "REJECT"
       ELSE IF \E k \in DOMAIN decisions : decisions[k].result = "SANITIZE" THEN "SANITIZE"
       ELSE "KEEP"

OpInit ==
    /\ op_config \in OpConfigs
    /\ op_filter_count \in 0..MaxFilters
    /\ op_pc = "idle"
    /\ op_text = "original"
    /\ op_assessment = NewAssessment
    /\ op_yielded = 0

OpOff ==
    /\ op_config = [kind |-> "quality", strict_mode |-> FALSE, sanitize_mode |-> FALSE,
                    critical_threshold |-> 10, rejection_threshold |-> 7]
    /\ op_filter_count = 0
    /\ op_pc = "off"
    /\ op_text = "original"
    /\ op_assessment = NewAssessment
    /\ op_yielded = 0

\* assess_document(doc): entry
OP_AssessDocument ==
    /\ op_pc \in {"idle", "done"}
    /\ op_pc' = "running"
    /\ op_text' = "original"
    /\ op_assessment' = NewAssessment
    /\ op_yielded' = 0
    /\ UNCHANGED <<op_config, op_filter_count>>
    /\ UNCHANGED <<component, use_openmp, edVars, ndVars, lfVars, mqVars, dfVars, pfVars, stVars, hpVars, lgVars, tuVars, dmVars>>

\* the next filter evaluates the running document; in strict and in sanitize
\* mode a Reject ends the evaluation
OP_RunFilter ==
    /\ op_pc = "running"
    /\ Len(op_assessment.filter_decisions) < op_filter_count
    /\ \E decision \in FilterDecisions(op_config.kind) :
        LET decisions == Append(op_assessment.filter_decisions, decision)
        IN IF decision.result = "REJECT" /\ (op_config.strict_mode \/ op_config.sanitize_mode)
           THEN /\ op_assessment' = [final_result |-> "REJECT",
                                     overall_score |-> calculate_overall_score(decisions),
                                     filter_decisions |-> decisions]
                /\ op_yielded' = op_yielded + 1
                /\ op_pc' = "done"
                /\ UNCHANGED op_text
           ELSE /\ op_assessment' = [op_assessment EXCEPT !.filter_decisions = decisions]
                /\ op_text' = IF decision.result = "SANITIZE" /\ op_config.sanitize_mode
                              THEN "sanitized" ELSE op_text
                /\ UNCHANGED <<op_pc, op_yielded>>
    /\ UNCHANGED <<op_config, op_filter_count>>
    /\ UNCHANGED <<component, use_openmp, edVars, ndVars, lfVars, mqVars, dfVars, pfVars, stVars, hpVars, lgVars, tuVars, dmVars>>

\* all filters have run: fusion
OP_Fuse ==
    /\ op_pc = "running"
    /\ Len(op_assessment.filter_decisions) = op_filter_count
    /\ op_assessment' =
        [op_assessment EXCEPT
            !.final_result = make_final_decision(op_assessment.filter_decisions, op_config),
            !.overall_score = calculate_overall_score(op_assessment.filter_decisions)]
    /\ op_yielded' = op_yielded + 1
    /\ op_pc' = "done"
    /\ UNCHANGED <<op_config, op_filter_count, op_text>>
    /\ UNCHANGED <<component, use_openmp, edVars, ndVars, lfVars, mqVars, dfVars, pfVars, stVars, hpVars, lgVars, tuVars, dmVars>>

OpNext ==
    \/ OP_AssessDocument
    \/ OP_RunFilter
    \/ OP_Fuse

\* ==================================================== DecontaminationFilter
\* Texts and benchmark lines are sequences of words, an n-gram is a sequence
\* of n words.  contamination_threshold is kept in tenths.
MaxLoads == 2
MaxAssess == 2
ExpectedElements == 1000000

DfDocs ==
    {[id |-> "d1", text |-> <<"p", "q">>], [id |-> "d2", text |-> <<"q", "p">>],
     [id |-> "d2", text |-> <<"p", "the">>]}
BenchmarkLines == {<<"p">>, <<"q">>, <<"#", "p">>}
Datasets == {"A", "B"}

\* static_cast<size_t> of the negative double -expected_elements * log(p) / ln2^2
\* is undefined: the conversion yields 0 or 2^63
CastNegativeToSize == {"0", "2^63"}

\* NGramBloomFilter(expected_elements, false_positive_rate), rd the value of
\* the random_device: bit_array_.resize(2^63) throws length_error
NGramBloomFilter(expected_elements, optimal_size, rd) ==
    IF optimal_size = "2^63" THEN [state |-> "length_error"]
    ELSE LET size == 0
             num_hash_functions == Clamp(1, 8, (size * 693) \div (expected_elements * 1000))
         IN [state |-> "ok", size |-> size, num_hash_functions |-> num_hash_functions,
             hash_function_seeds |-> [i \in 1 .. num_hash_functions |-> rd * 7 + i],
             bit_array |-> {}]

\* std::hash<std::string>(item + std::to_string(seed)), as some fixed function
hash(filter, item) ==
    LET WordCode(w) == CASE w = "p" -> 3 [] w = "q" -> 5 [] w = "the" -> 7 [] OTHER -> 11
        ItemCode == IF item = <<>> THEN 0 ELSE WordCode(item[1]) * 13 + Len(item)
    IN [i \in 1 .. filter.num_hash_functions |->
            ItemCode * 31 + filter.hash_function_seeds[i] * 17]

\* add: the filter afterwards; hashes[i] % bit_array_.size() faults when the
\* size is 0
add(filter, ngram) ==
    IF filter.state # "ok" \/ filter.size = 0 THEN [filter EXCEPT !.state = "fault"]
    ELSE [filter EXCEPT !.bit_array =
            @ \cup {hash(filter, ngram)[i] % filter.size : i \in 1 .. filter.num_hash_functions}]

\* might_contain: "true", "false", or "fault" for the division by zero
might_contain(filter, ngram) ==
    IF filter.size = 0 THEN "fault"
    ELSE IF \A i \in 1 .. filter.num_hash_functions :
                (hash(filter, ngram)[i] % filter.size) \in filter.bit_array
         THEN "true" ELSE "false"

\* bloom_filter_->add for each n-gram of the sequence in turn
add_all(filter, ngrams) ==
    LET RECURSIVE AddFrom(_, _)
        AddFrom(f, i) ==
            IF i > Len(ngrams) \/ f.state = "fault" THEN f
            ELSE AddFrom(add(f, ngrams[i]), i + 1)
    IN AddFrom(filter, 1)

\* DecontaminationConfig(): the members the filter reads
DecontaminationConfig ==
    [ngram_size |-> 13, contamination_threshold |-> 1, min_matches_to_reject |-> 1,
     max_matches_per_document |-> 100, use_bloom_filter |-> TRUE,
     exclude_common_phrases |-> TRUE]

\* the configurations a caller passes in
DfConfigs ==
    {[DecontaminationConfig EXCEPT !.ngram_size = 1],
     [DecontaminationConfig EXCEPT !.ngram_size = 1, !.use_bloom_filter = FALSE],
     [DecontaminationConfig EXCEPT !.ngram_size = 1, !.use_bloom_filter = FALSE,
                                   !.min_matches_to_reject = 2,
                                   !.contamination_threshold = 5],
     [DecontaminationConfig EXCEPT !.ngram_size = 1, !.use_bloom_filter = FALSE,
                                   !.exclude_common_phrases = FALSE,
                                   !.contamination_threshold = 8,
                                   !.max_matches_per_document = 1]}

\* the words of load_common_phrases() that occur in the texts
load_common_phrases == {<<"the">>}

\* word n-grams of the text (tokenize_before_ngrams), in document order
extract_ngrams(text, n) ==
    IF Len(text) < n THEN <<>>
    ELSE [i \in 1 .. (Len(text) - n + 1) |-> SubSeq(text, i, i + n - 1)]

\* find_contaminated_ngrams: the matches in document order; fault when the
\* Bloom filter lookup divides by zero
find_contaminated_ngrams(doc) ==
    LET document_ngrams == extract_ngrams(doc.text, df_config.ngram_size)
        RECURSIVE Scan(_, _)
        Scan(i, matches) ==
            IF i > Len(document_ngrams) THEN [fault |-> FALSE, matches |-> matches]
            ELSE LET ngram == document_ngrams[i]
                 IN IF df_config.exclude_common_phrases /\ ngram \in df_common_phrases
                    THEN Scan(i + 1, matches)
                    ELSE IF df_bloom.state = "ok" /\ might_contain(df_bloom, ngram) = "fault"
                    THEN [fault |-> TRUE, matches |-> matches]
                    ELSE IF df_bloom.state = "ok" /\ might_contain(df_bloom, ngram) = "false"
                    THEN Scan(i + 1, matches)
                    ELSE IF ngram \in df_benchmark_ngrams
                    THEN LET match == [ngram |-> ngram, position_in_document |-> i - 1,
                                       source_dataset |-> df_ngram_to_dataset[ngram]]
                         IN IF Len(matches) + 1 >= df_config.max_matches_per_document
                            THEN [fault |-> FALSE, matches |-> Append(matches, match)]
                            ELSE Scan(i + 1, Append(matches, match))
                    ELSE Scan(i + 1, matches)
    IN Scan(1, <<>>)

\* source_counts: dataset -> number of matches
source_counts(matches) ==
    [d \in {matches[i].source_dataset : i \in DOMAIN matches} |->
        Cardinality({i \in DOMAIN matches : matches[i].source_dataset = d})]

\* the datasets in the order the matches insert them into source_counts
insertion_order(matches) ==
    LET RECURSIVE FirstSeen(_, _)
        FirstSeen(i, seen) ==
            IF i > Len(matches) THEN seen
            ELSE IF matches[i].source_dataset \in Range(seen) THEN FirstSeen(i + 1, seen)
            ELSE FirstSeen(i + 1, Append(seen, matches[i].source_dataset))
    IN FirstSeen(1, <<>>)

\* std::max_element over source_counts visited in `order`: the first largest
max_element(counts, order) ==
    order[MinOf({i \in DOMAIN order :
                    \A j \in DOMAIN order : counts[order[j]] <= counts[order[i]]})]

\* calculate_contamination_score, as the fraction num / den
calculate_contamination_score(matches, total_ngrams) ==
    IF total_ngrams = 0 THEN [num |-> 0, den |-> 1]
    ELSE [num |-> Len(matches), den |-> total_ngrams]

\* assess_document past the cache lookup, with source_counts visited in `order`
assess_document(doc, matches, order) ==
    LET total_ngrams_checked == Len(extract_ngrams(doc.text, df_config.ngram_size))
        contamination_score == calculate_contamination_score(matches, total_ngrams_checked)
    IN [is_contaminated |->
            contamination_score.num * 10
                >= df_config.contamination_threshold * contamination_score.den,
        matches |-> matches,
        contamination_score |-> contamination_score,
        total_ngrams_checked |-> total_ngrams_checked,
        contaminated_ngrams |-> Len(matches),
        most_likely_source |-> IF matches = <<>> THEN ""
                               ELSE max_element(source_counts(matches), order)]

\* the number of the document's extracted n-grams that are in benchmark_ngrams_
ngrams_in_benchmark(doc) ==
    LET document_ngrams == extract_ngrams(doc.text, df_config.ngram_size)
    IN Cardinality({i \in DOMAIN document_ngrams :
                        document_ngrams[i] \in df_benchmark_ngrams})

\* what assess_document computes for the document when it does not take the
\* result from the cache: the members that do not depend on a visiting order
fresh_assessment(doc) ==
    LET found == find_contaminated_ngrams(doc)
        computed == assess_document(doc, found.matches, insertion_order(found.matches))
    IN [fault |-> found.fault,
        matches |-> found.matches,
        is_contaminated |-> computed.is_contaminated,
        total_ngrams_checked |-> computed.total_ngrams_checked]

df_update_stats(stats, assessment) ==
    [total_documents_processed |-> stats.total_documents_processed + 1,
     contaminated_documents |->
        stats.contaminated_documents + (IF assessment.is_contaminated THEN 1 ELSE 0),
     clean_documents |->
        stats.clean_documents + (IF assessment.is_contaminated THEN 0 ELSE 1)]

DecontaminationStats ==
    [total_documents_processed |-> 0, contaminated_documents |-> 0, clean_documents |-> 0]

DfFresh ==
    /\ df_benchmark_ngrams = {}
    /\ df_ngram_to_dataset = << >>
    /\ df_cache = << >>
    /\ df_stats = DecontaminationStats
    /\ df_loads = 0
    /\ df_added = {}
    /\ df_iteration = << >>
    /\ df_last = [assessed |-> FALSE]

\* DecontaminationFilter() = default, or DecontaminationFilter(config)
DfInit ==
    /\ DfFresh
    /\ \/ /\ df_config = DecontaminationConfig
          /\ df_bloom = [state |-> "null"]
          /\ df_common_phrases = {}
          /\ df_pc = "ready"
       \/ \E config \in DfConfigs, optimal_size \in CastNegativeToSize, rd \in Seeds :
            LET filter == IF config.use_bloom_filter
                          THEN NGramBloomFilter(ExpectedElements, optimal_size, rd)
                          ELSE [state |-> "null"]
            IN /\ df_config = config
               /\ df_bloom = filter
               /\ df_common_phrases =
                    IF config.exclude_common_phrases /\ filter.state # "length_error"
                    THEN load_common_phrases ELSE {}
               /\ df_pc = IF filter.state = "length_error" THEN "threw" ELSE "ready"

DfOff ==
    /\ DfFresh
    /\ df_config = DecontaminationConfig
    /\ df_bloom = [state |-> "null"]
    /\ df_common_phrases = {}
    /\ df_pc = "off"

\* set_config: a throw of the Bloom filter's constructor leaves config_
\* assigned and bloom_filter_ null
DF_SetConfig ==
    /\ df_pc = "ready"
    /\ \E config \in DfConfigs :
        /\ df_config' = config
        /\ IF config.use_bloom_filter /\ df_bloom.state = "null"
           THEN \E optimal_size \in CastNegativeToSize, rd \in Seeds,
                   stored \in Orderings(df_benchmark_ngrams) :
                  LET filter == NGramBloomFilter(ExpectedElements, optimal_size, rd)
                  IN IF filter.state = "length_error"
                     THEN UNCHANGED <<df_bloom, df_added, df_pc>>
                     ELSE /\ df_bloom' = add_all(filter, stored)
                          /\ df_added' = df_added \cup df_benchmark_ngrams
                          /\ df_pc' = IF df_bloom'.state = "fault" THEN "fault" ELSE "ready"
           ELSE UNCHANGED <<df_bloom, df_added, df_pc>>
    /\ UNCHANGED <<df_benchmark_ngrams, df_ngram_to_dataset, df_common_phrases, df_cache,
                   df_stats, df_loads, df_iteration, df_last>>
    /\ UNCHANGED <<component, use_openmp, edVars, ndVars, lfVars, mqVars, opVars, pfVars, stVars, hpVars, lgVars, tuVars, dmVars>>

\* load_benchmark_file on a file of one line: per n-gram insert, record the
\* dataset, add to the Bloom filter; a fault ends the loop at its first n-gram
DF_LoadBenchmarkFile ==
    /\ df_pc = "ready"
    /\ df_loads < MaxLoads
    /\ \E line \in BenchmarkLines, dataset_name \in Datasets :
        LET ngrams == IF Head(line) = "#" THEN <<>>
                      ELSE extract_ngrams(line, df_config.ngram_size)
            filled == IF df_bloom.state = "ok" THEN add_all(df_bloom, ngrams) ELSE df_bloom
            done == IF filled.state = "fault" THEN {ngrams[1]} ELSE Range(ngrams)
        IN /\ df_loads' = df_loads + 1
           /\ df_added' = IF df_bloom.state = "ok" THEN df_added \cup done ELSE df_added
           /\ df_benchmark_ngrams' = df_benchmark_ngrams \cup done
           /\ df_ngram_to_dataset' =
                 [g \in DOMAIN df_ngram_to_dataset \cup done |->
                     IF g \in done THEN dataset_name ELSE df_ngram_to_dataset[g]]
           /\ df_bloom' = filled
           /\ df_pc' = IF filled.state = "fault" THEN "fault" ELSE "ready"
    /\ UNCHANGED <<df_config, df_common_phrases, df_cache, df_stats, df_iteration, df_last>>
    /\ UNCHANGED <<component, use_openmp, edVars, ndVars, lfVars, mqVars, opVars, pfVars, stVars, hpVars, lgVars, tuVars, dmVars>>

\* assess_document.  The order in which source_counts is visited is a fixed
\* function of the order of insertion, which df_iteration remembers.
DF_AssessDocument ==
    /\ df_pc = "ready"
    /\ df_stats.total_documents_processed < MaxAssess
    /\ \E doc \in DfDocs :
        IF doc.id \in DOMAIN df_cache
        THEN /\ df_last' = [assessed |-> TRUE, cached |-> TRUE, doc |-> doc,
                            config |-> df_config, assessment |-> df_cache[doc.id],
                            fresh |-> fresh_assessment(doc),
                            in_benchmark |-> ngrams_in_benchmark(doc)]
             /\ UNCHANGED <<df_cache, df_stats, df_iteration, df_pc>>
        ELSE LET found == find_contaminated_ngrams(doc)
                 inserted == insertion_order(found.matches)
             IN IF found.fault
                THEN /\ df_pc' = "fault"
                     /\ UNCHANGED <<df_cache, df_stats, df_iteration, df_last>>
                ELSE \E order \in Orderings(Range(inserted)) :
                       /\ inserted \in DOMAIN df_iteration => order = df_iteration[inserted]
                       /\ df_iteration' =
                             IF Len(inserted) < 2 THEN df_iteration
                             ELSE [s \in DOMAIN df_iteration \cup {inserted} |->
                                      IF s = inserted THEN order ELSE df_iteration[s]]
                       /\ LET assessment == assess_document(doc, found.matches, order)
                          IN /\ df_cache' = [id \in DOMAIN df_cache \cup {doc.id} |->
                                                IF id = doc.id THEN assessment
                                                ELSE df_cache[id]]
                             /\ df_stats' = df_update_stats(df_stats, assessment)
                             /\ df_last' = [assessed |-> TRUE, cached |-> FALSE, doc |-> doc,
                                            config |-> df_config, assessment |-> assessment,
                                            fresh |-> fresh_assessment(doc),
                                            in_benchmark |-> ngrams_in_benchmark(doc)]
                       /\ UNCHANGED df_pc
    /\ UNCHANGED <<df_config, df_bloom, df_added, df_benchmark_ngrams, df_ngram_to_dataset,
                   df_common_phrases, df_loads>>
    /\ UNCHANGED <<component, use_openmp, edVars, ndVars, lfVars, mqVars, opVars, pfVars, stVars, hpVars, lgVars, tuVars, dmVars>>

DF_ResetStats ==
    /\ df_pc = "ready"
    /\ df_stats' = DecontaminationStats
    /\ UNCHANGED <<df_config, df_bloom, df_added, df_benchmark_ngrams, df_ngram_to_dataset,
                   df_common_phrases, df_cache, df_loads, df_iteration, df_last, df_pc>>
    /\ UNCHANGED <<component, use_openmp, edVars, ndVars, lfVars, mqVars, opVars, pfVars, stVars, hpVars, lgVars, tuVars, dmVars>>

DfNext ==
    \/ DF_SetConfig
    \/ DF_LoadBenchmarkFile
    \/ DF_AssessDocument
    \/ DF_ResetStats

\* ================================================================ PIIFilter
\* A text is a sequence of words separated by single spaces; positions are
\* character offsets.  "a{57}.demo@corp.com" stands for the address whose
\* local part is 57 letters a followed by ".demo".
MaxWords == 2
ContextWindow == 50

PfWords == {"a{57}.demo@corp.com", "bob@corp.com", "555-123-4567", "e.g."}
PfTexts == UNION {[1 .. n -> PfWords] : n \in 1 .. MaxWords}

WordLength(w) ==
    CASE w = "a{57}.demo@corp.com" -> 71
      [] w = "bob@corp.com" -> 12
      [] w = "555-123-4567" -> 12
      [] w = "e.g." -> 4
      [] w = "[EMAIL]" -> 7
      [] w = "[REDACTED]" -> 10
      [] w = "user1@example.com" -> 17
      [] OTHER -> 0

\* where the words searched by has_example_context and has_test_data_context
\* occur inside a word: <<first offset, offset past the end>>
ContextWordsIn(w) ==
    CASE w = "a{57}.demo@corp.com" -> {<<58, 62>>}
      [] w = "e.g." -> {<<0, 4>>}
      [] w = "user1@example.com" -> {<<6, 13>>}
      [] OTHER -> {}

\* the type whose pattern matches the word
MatchedType(w) ==
    CASE w \in {"a{57}.demo@corp.com", "bob@corp.com", "user1@example.com"} -> "EMAIL"
      [] w = "555-123-4567" -> "PHONE"
      [] OTHER -> "NONE"

\* PIIFilterConfig(): the members evaluate and get_replacement_text read
PIIFilterConfig ==
    [remove_emails |-> TRUE, remove_phones |-> TRUE, use_placeholders |-> TRUE,
     anonymize_instead_of_remove |-> TRUE, safe_domains |-> {}]

\* the configurations a caller passes in
PfConfigs ==
    {PIIFilterConfig,
     [PIIFilterConfig EXCEPT !.anonymize_instead_of_remove = FALSE],
     [PIIFilterConfig EXCEPT !.use_placeholders = FALSE],
     [PIIFilterConfig EXCEPT !.use_placeholders = FALSE,
                             !.anonymize_instead_of_remove = FALSE],
     [PIIFilterConfig EXCEPT !.remove_emails = FALSE]}

\* compile_patterns assigns the patterns in this order.  The phone pattern is
\* one raw string literal that runs over both source lines and holds an
\* unmatched parenthesis: std::regex throws regex_error on it, so only the
\* patterns before it are ever assigned.
compile_patterns ==
    LET order == <<"EMAIL", "PHONE", "SSN", "CREDIT_CARD", "IP_ADDRESS",
                   "PHYSICAL_ADDRESS", "PERSON_NAME", "ORGANIZATION">>
        malformed == MinOf({i \in DOMAIN order : order[i] = "PHONE"})
    IN [assigned |-> {order[i] : i \in 1 .. (malformed - 1)}, threw |-> TRUE]

get_replacement_text(type) ==
    IF pf_config.anonymize_instead_of_remove
    THEN IF type = "EMAIL"
         THEN IF pf_config.use_placeholders THEN "[EMAIL]" ELSE "user1@example.com"
         ELSE "[REDACTED]"
    ELSE IF pf_config.use_placeholders THEN "[REDACTED]" ELSE ""

\* extract_matches for every compiled pattern, in order of start_pos; a
\* default-constructed std::regex matches nothing
extract_matches(text) ==
    LET start_pos(i) ==
            LET RECURSIVE Before(_)
                Before(j) == IF j = 0 THEN 0 ELSE Before(j - 1) + WordLength(text[j]) + 1
            IN Before(i - 1)
        length == IF text = <<>> THEN 0 ELSE start_pos(Len(text)) + WordLength(Last(text))
        hits == {i \in DOMAIN text : MatchedType(text[i]) \in pf_compiled}
        RECURSIVE InOrder(_)
        InOrder(rest) ==
            IF rest = {} THEN <<>>
            ELSE LET i == MinOf(rest)
                 IN <<[type |-> MatchedType(text[i]), original_text |-> text[i], word |-> i,
                       start_pos |-> start_pos(i),
                       end_pos |-> start_pos(i) + WordLength(text[i]),
                       \* extract_context: the window of the text around start_pos
                       context |->
                          LET from == IF start_pos(i) > ContextWindow
                                      THEN start_pos(i) - ContextWindow ELSE 0
                              to == IF start_pos(i) + ContextWindow < length
                                    THEN start_pos(i) + ContextWindow ELSE length
                          IN {text[j] : j \in {k \in DOMAIN text :
                                 \E occ \in ContextWordsIn(text[k]) :
                                    /\ from <= start_pos(k) + occ[1]
                                    /\ start_pos(k) + occ[2] <= to}},
                       replacement |-> get_replacement_text(MatchedType(text[i]))]>>
                    \o InOrder(rest \ {i})
    IN InOrder(hits)

\* is_example_data: the matched text holds example, test, sample, ...
is_example_data(match) == match.original_text = "user1@example.com"

\* has_example_context or has_test_data_context, or a safe-domain email
is_in_safe_context(match) ==
    \/ match.context # {}
    \/ match.type = "EMAIL" /\ "corp.com" \in pf_config.safe_domains

\* detect_pii: the matches that are neither false positives nor in a safe
\* context (matches of whole words never overlap)
detect_pii(text) ==
    SelectSeq(extract_matches(text),
              LAMBDA match : ~is_example_data(match) /\ ~is_in_safe_context(match))

\* sanitize_text: every detected match replaced by its replacement
sanitize_text(text) ==
    LET matches == detect_pii(text)
    IN [i \in DOMAIN text |->
          IF \E k \in DOMAIN matches : matches[k].word = i
          THEN (CHOOSE m \in Range(matches) : m.word = i).replacement
          ELSE text[i]]

pf_evaluate(text) ==
    LET pii_matches == detect_pii(text)
        has_sensitive_pii ==
            \E k \in DOMAIN pii_matches :
                \/ pii_matches[k].type = "EMAIL" /\ pf_config.remove_emails
                \/ pii_matches[k].type = "PHONE" /\ pf_config.remove_phones
    IN [pii_types |-> [k \in DOMAIN pii_matches |-> pii_matches[k].type],
        result |-> IF ~has_sensitive_pii THEN "KEEP"
                   ELSE IF pf_config.use_placeholders \/ pf_config.anonymize_instead_of_remove
                        THEN "SANITIZE" ELSE "REJECT",
        sanitized_text |->
            IF /\ has_sensitive_pii
               /\ (pf_config.use_placeholders \/ pf_config.anonymize_instead_of_remove)
            THEN sanitize_text(text) ELSE <<>>]

\* PIIFilter() = default compiles nothing; PIIFilter(config) throws out of
\* compile_patterns
PfInit ==
    /\ pf_compiled = {}
    /\ pf_last = [evaluated |-> FALSE]
    /\ \/ pf_config = PIIFilterConfig /\ pf_pc = "ready"
       \/ pf_config \in PfConfigs /\ pf_pc = "threw"

PfOff ==
    /\ pf_compiled = {}
    /\ pf_last = [evaluated |-> FALSE]
    /\ pf_config = PIIFilterConfig
    /\ pf_pc = "off"

\* set_config: config_ is assigned, compile_patterns throws before
\* initialize_default_patterns runs
PF_SetConfig ==
    /\ pf_pc = "ready"
    /\ \E config \in PfConfigs : pf_config' = config
    /\ pf_compiled' = pf_compiled \cup compile_patterns.assigned
    /\ UNCHANGED <<pf_pc, pf_last>>
    /\ UNCHANGED <<component, use_openmp, edVars, ndVars, lfVars, mqVars, opVars, dfVars, stVars, hpVars, lgVars, tuVars, dmVars>>

\* configure(ContentConfig): the same with config.pii_config
PF_Configure ==
    /\ pf_pc = "ready"
    /\ \E config \in PfConfigs : pf_config' = config
    /\ pf_compiled' = pf_compiled \cup compile_patterns.assigned
    /\ UNCHANGED <<pf_pc, pf_last>>
    /\ UNCHANGED <<component, use_openmp, edVars, ndVars, lfVars, mqVars, opVars, dfVars, stVars, hpVars, lgVars, tuVars, dmVars>>

\* evaluate, followed by the caller's detect_pii on the sanitized text
PF_Evaluate ==
    /\ pf_pc = "ready"
    /\ \E text \in PfTexts :
        LET decision == pf_evaluate(text)
        IN pf_last' = [evaluated |-> TRUE, text |-> text, config |-> pf_config,
                       decision |-> decision,
                       detected_again |-> detect_pii(decision.sanitized_text)]
    /\ UNCHANGED <<pf_pc, pf_config, pf_compiled>>
    /\ UNCHANGED <<component, use_openmp, edVars, ndVars, lfVars, mqVars, opVars, dfVars, stVars, hpVars, lgVars, tuVars, dmVars>>

PfNext ==
    \/ PF_SetConfig
    \/ PF_Configure
    \/ PF_Evaluate

\* ================================= ExactDeduplicator::deduplicate_stream
MaxLines == 3
DefaultBatchSize == 10000
\* a line of the stream: the empty line, or a text
EmptyLine == 0
StreamLines == {EmptyLine} \cup Texts
StreamInputs == UNION {[1 .. n -> StreamLines] : n \in 0 .. MaxLines}
BatchSizes == {0, DefaultBatchSize}

\* the body of the loop after doc_hash is computed: whether the line is
\* written, and seen_hashes afterwards
stream_step_without_insert(seen_hashes, doc_hash) ==
    [write |-> doc_hash \notin seen_hashes, seen_hashes |-> seen_hashes]
stream_step(seen_hashes, doc_hash) ==
    IF doc_hash \notin seen_hashes
    THEN [write |-> TRUE, seen_hashes |-> seen_hashes \cup {doc_hash}]
    ELSE [write |-> FALSE, seen_hashes |-> seen_hashes]

StInit ==
    /\ st_pc = "idle"
    /\ st_input = <<>>
    /\ st_batch_size = DefaultBatchSize
    /\ st_read = 0
    /\ st_seen_hashes = {}
    /\ st_output = <<>>
    /\ st_hashes = <<>>
    /\ st_written = <<>>

StOff ==
    /\ st_pc = "off"
    /\ st_input = <<>>
    /\ st_batch_size = DefaultBatchSize
    /\ st_read = 0
    /\ st_seen_hashes = {}
    /\ st_output = <<>>
    /\ st_hashes = <<>>
    /\ st_written = <<>>

\* deduplicate_stream(): entry, up to the first std::getline.  The call
\* reads config_ and writes no member of the object.
ST_DeduplicateStream ==
    /\ st_pc \in {"idle", "returned"}
    /\ \E input_stream \in StreamInputs, batch_size \in BatchSizes :
        /\ st_input' = input_stream
        /\ st_batch_size' = batch_size
    /\ st_pc' = "reading"
    /\ st_read' = 0
    /\ st_seen_hashes' = {}
    /\ st_output' = <<>>
    /\ st_hashes' = <<>>
    /\ st_written' = <<>>
    /\ UNCHANGED <<component, use_openmp, edVars, ndVars, lfVars, mqVars, opVars, dfVars, pfVars, hpVars, lgVars, tuVars, dmVars>>

\* one pass of the while loop on an empty line: continue
ST_EmptyLine ==
    /\ st_pc = "reading"
    /\ st_read < Len(st_input)
    /\ st_input[st_read + 1] = EmptyLine
    /\ st_read' = st_read + 1
    /\ st_hashes' = Append(st_hashes, NoHash)
    /\ st_written' = Append(st_written, FALSE)
    /\ UNCHANGED <<st_pc, st_input, st_batch_size, st_seen_hashes, st_output>>
    /\ UNCHANGED <<component, use_openmp, edVars, ndVars, lfVars, mqVars, opVars, dfVars, pfVars, hpVars, lgVars, tuVars, dmVars>>

\* one pass of the while loop on a non-empty line.  processed is at least 1
\* after processed++, and processed % (batch_size * 10) divides by zero when
\* batch_size is 0: the pass ends normally or the process is stopped.
ST_Line ==
    /\ st_pc = "reading"
    /\ st_read < Len(st_input)
    /\ st_input[st_read + 1] # EmptyLine
    /\ LET line == st_input[st_read + 1]
       IN \E doc_hash \in compute_hash(line, ed_config.algorithm) :
            LET step == stream_step(st_seen_hashes, doc_hash)
            IN /\ st_seen_hashes' = step.seen_hashes
               /\ st_output' = IF step.write THEN Append(st_output, line) ELSE st_output
               /\ st_hashes' = Append(st_hashes, doc_hash)
               /\ st_written' = Append(st_written, step.write)
    /\ st_read' = st_read + 1
    /\ st_pc' \in IF st_batch_size = 0 THEN {"reading", "stopped"} ELSE {"reading"}
    /\ UNCHANGED <<st_input, st_batch_size>>
    /\ UNCHANGED <<component, use_openmp, edVars, ndVars, lfVars, mqVars, opVars, dfVars, pfVars, hpVars, lgVars, tuVars, dmVars>>

\* a call of hash_utils::xxhash64 that never returns
ST_XxhashNoReturn ==
    /\ st_pc = "reading"
    /\ st_read < Len(st_input)
    /\ st_input[st_read + 1] # EmptyLine
    /\ ed_config.algorithm = "XXHASH64"
    /\ st_pc' = "no_return"
    /\ UNCHANGED <<st_input, st_batch_size, st_read, st_seen_hashes, st_output, st_hashes,
                   st_written>>
    /\ UNCHANGED <<component, use_openmp, edVars, ndVars, lfVars, mqVars, opVars, dfVars, pfVars, hpVars, lgVars, tuVars, dmVars>>

\* std::getline fails at the end of the stream: the call returns
ST_EndOfStream ==
    /\ st_pc = "reading"
    /\ st_read = Len(st_input)
    /\ st_pc' = "returned"
    /\ UNCHANGED <<st_input, st_batch_size, st_read, st_seen_hashes, st_output, st_hashes,
                   st_written>>
    /\ UNCHANGED <<component, use_openmp, edVars, ndVars, lfVars, mqVars, opVars, dfVars, pfVars, hpVars, lgVars, tuVars, dmVars>>

StNext ==
    \/ ST_DeduplicateStream
    \/ ST_EmptyLine
    \/ ST_Line
    \/ ST_XxhashNoReturn
    \/ ST_EndOfStream

\* ============================================== HtmlParser (TextExtractor)
MaxHtml == 4
\* the characters of the documents: one letter, one blank, the characters the
\* parser tests for, and one other punctuation character
HtmlChars == {"<", ">", "/", "a", " ", "!", "=", "\""}
HtmlInputs == UNION {[1 .. n -> HtmlChars] : n \in 0 .. MaxHtml}
\* html_[pos], pos counted from 0
CharAt(html, pos) == html[pos + 1]
\* the characters for which std::isspace, std::isalnum hold ('-' and '_'
\* count as the letter does)
isspace == {" "}
isalnum == {"a"}

\* the loops that advance pos_ while html_[pos_] is one of chars
RECURSIVE ScanWhile(_, _, _)
ScanWhile(html, pos, chars) ==
    IF pos < Len(html) /\ CharAt(html, pos) \in chars
    THEN ScanWhile(html, pos + 1, chars) ELSE pos
skip_whitespace(html, pos) == ScanWhile(html, pos, isspace)
\* parse_tag_name, and the attribute-name loop of parse_attributes
parse_tag_name(html, pos) ==
    LET end == ScanWhile(html, pos, isalnum)
    IN [pos |-> end, tag_name |-> SubSeq(html, pos + 1, end)]
parse_text(html, pos) == ScanWhile(html, pos, HtmlChars \ {"<"})

\* one pass of the while loop of parse_attributes: pos_ afterwards, and
\* whether the loop is left
parse_attributes_pass(html, pos) ==
    LET TagEnd(p) == p >= Len(html) \/ CharAt(html, p) \in {">", "/"}
        p1 == skip_whitespace(html, pos)
        p2 == parse_tag_name(html, p1).pos
        p3 == skip_whitespace(html, p2)
        p5 == skip_whitespace(html, p3 + 1)
        closing == ScanWhile(html, p5 + 1, HtmlChars \ {"\""})
    IN IF TagEnd(pos) THEN [pos |-> pos, left |-> TRUE]
       ELSE IF TagEnd(p1) THEN [pos |-> p1, left |-> TRUE]
       ELSE IF p3 < Len(html) /\ CharAt(html, p3) = "="
            THEN IF p5 < Len(html) /\ CharAt(html, p5) = "\""
                 THEN [pos |-> IF closing < Len(html) THEN closing + 1 ELSE closing,
                       left |-> FALSE]
                 ELSE [pos |-> ScanWhile(html, p5, HtmlChars \ (isspace \cup {">", "/"})), left |-> FALSE]
            ELSE [pos |-> p3, left |-> FALSE]

\* parse_element from its entry to the call of parse_attributes, or to its
\* return for a closing tag (nullptr) and for a text node
parse_element_entry(html, pos) ==
    LET p1 == skip_whitespace(html, pos + 1)
        name == parse_tag_name(html, p1)
    IN IF CharAt(html, pos) = "<"
       THEN IF p1 < Len(html) /\ CharAt(html, p1) = "/"
            THEN [pos |-> p1, returns |-> TRUE, tag |-> <<>>]
            ELSE [pos |-> skip_whitespace(html, name.pos), returns |-> FALSE,
                  tag |-> name.tag_name]
       ELSE [pos |-> parse_text(html, pos), returns |-> TRUE, tag |-> <<>>]

\* parse_element between parse_attributes and the loop over the children
parse_element_tag_end(html, pos) ==
    LET p1 == skip_whitespace(html, pos)
        self_closing == p1 < Len(html) /\ CharAt(html, p1) = "/"
        p2 == IF self_closing THEN p1 + 1 ELSE p1
    IN [pos |-> IF p2 < Len(html) /\ CharAt(html, p2) = ">" THEN p2 + 1 ELSE p2,
        self_closing |-> self_closing]

\* one pass of the loop over the children of the element with the given tag:
\* "break" leaves the loop, "call" calls parse_element, "text" took text
parse_element_child_pass(html, pos, tag) ==
    LET p1 == skip_whitespace(html, pos)
        p2 == skip_whitespace(html, p1 + 1)
        closing_tag == parse_tag_name(html, skip_whitespace(html, p2 + 1))
        close == ScanWhile(html, closing_tag.pos, HtmlChars \ {">"})
    IN IF pos >= Len(html) THEN [pos |-> pos, next |-> "break"]
       ELSE IF p1 >= Len(html) THEN [pos |-> p1, next |-> "break"]
       ELSE IF CharAt(html, p1) = "<"
            THEN IF /\ p2 < Len(html) /\ CharAt(html, p2) = "/"
                    /\ closing_tag.tag_name = tag
                 THEN [pos |-> IF close < Len(html) THEN close + 1 ELSE close,
                       next |-> "break"]
                 ELSE [pos |-> p1, next |-> "call"]
            ELSE [pos |-> parse_text(html, p1), next |-> "text"]

\* where a call of parse_element returns to: the loop of its caller
ReturnTo(stack) == IF stack = <<>> THEN "parse" ELSE "children"

HpInit ==
    /\ hp_pc = "parse"
    /\ hp_html \in HtmlInputs
    /\ hp_pos = 0
    /\ hp_stack = <<>>

HpOff ==
    /\ hp_pc = "off"
    /\ hp_html = <<>>
    /\ hp_pos = 0
    /\ hp_stack = <<>>

\* one pass of the while loop of parse(), up to the call of parse_element
HP_ParsePass ==
    /\ hp_pc = "parse"
    /\ LET p1 == skip_whitespace(hp_html, hp_pos)
       IN IF hp_pos >= Len(hp_html) \/ p1 >= Len(hp_html)
          THEN hp_pc' = "parsed" /\ hp_pos' = (IF hp_pos >= Len(hp_html) THEN hp_pos ELSE p1)
          ELSE hp_pc' = "element" /\ hp_pos' = p1
    /\ UNCHANGED <<hp_html, hp_stack>>
    /\ UNCHANGED <<component, use_openmp, edVars, ndVars, lfVars, mqVars, opVars, dfVars, pfVars, stVars, lgVars, tuVars, dmVars>>

HP_ParseElement ==
    /\ hp_pc = "element"
    /\ LET entry == parse_element_entry(hp_html, hp_pos)
       IN /\ hp_pos' = entry.pos
          /\ IF entry.returns
             THEN hp_pc' = ReturnTo(hp_stack) /\ hp_stack' = hp_stack
             ELSE hp_pc' = "attributes" /\ hp_stack' = Append(hp_stack, entry.tag)
    /\ UNCHANGED hp_html
    /\ UNCHANGED <<component, use_openmp, edVars, ndVars, lfVars, mqVars, opVars, dfVars, pfVars, stVars, lgVars, tuVars, dmVars>>

\* one pass of the while loop of parse_attributes; after the loop, the rest
\* of the opening tag
HP_AttributesPass ==
    /\ hp_pc = "attributes"
    /\ LET pass == parse_attributes_pass(hp_html, hp_pos)
           tag_end == parse_element_tag_end(hp_html, pass.pos)
           rest == SubSeq(hp_stack, 1, Len(hp_stack) - 1)
       IN IF ~pass.left
          THEN hp_pos' = pass.pos /\ UNCHANGED <<hp_pc, hp_stack>>
          ELSE /\ hp_pos' = tag_end.pos
               /\ IF tag_end.self_closing
                  THEN hp_pc' = ReturnTo(rest) /\ hp_stack' = rest
                  ELSE hp_pc' = "children" /\ hp_stack' = hp_stack
    /\ UNCHANGED hp_html
    /\ UNCHANGED <<component, use_openmp, edVars, ndVars, lfVars, mqVars, opVars, dfVars, pfVars, stVars, lgVars, tuVars, dmVars>>

\* one pass of the loop over the children in parse_element
HP_ChildPass ==
    /\ hp_pc = "children"
    /\ LET pass == parse_element_child_pass(hp_html, hp_pos, Last(hp_stack))
           rest == SubSeq(hp_stack, 1, Len(hp_stack) - 1)
       IN /\ hp_pos' = pass.pos
          /\ CASE pass.next = "break" -> hp_pc' = ReturnTo(rest) /\ hp_stack' = rest
               [] pass.next = "call" -> hp_pc' = "element" /\ hp_stack' = hp_stack
               [] OTHER -> hp_pc' = "children" /\ hp_stack' = hp_stack
    /\ UNCHANGED hp_html
    /\ UNCHANGED <<component, use_openmp, edVars, ndVars, lfVars, mqVars, opVars, dfVars, pfVars, stVars, lgVars, tuVars, dmVars>>

\* extract() after parser.parse(): metadata, boilerplate removal, text, result
HP_ExtractResult ==
    /\ hp_pc = "parsed"
    /\ hp_pc' = "returned"
    /\ UNCHANGED <<hp_html, hp_pos, hp_stack>>
    /\ UNCHANGED <<component, use_openmp, edVars, ndVars, lfVars, mqVars, opVars, dfVars, pfVars, stVars, lgVars, tuVars, dmVars>>

HpNext ==
    \/ HP_ParsePass
    \/ HP_ParseElement
    \/ HP_AttributesPass
    \/ HP_ChildPass
    \/ HP_ExtractResult

\* ============================================================ LanguageFilter
MaxBatch == 2
\* a document: the length of its text, and what calculate_language_score and
\* has_mixed_scripts find in it (the texts hold no URL, address or repeated
\* blank, so clean_text_for_detection leaves their length as it is)
LgDocs ==
    {[length |-> 5, language |-> "en", best_score |-> 50, mixed |-> FALSE],
     [length |-> 15, language |-> "en", best_score |-> 25, mixed |-> FALSE],
     [length |-> 60, language |-> "en", best_score |-> 40, mixed |-> FALSE],
     [length |-> 200, language |-> "fr", best_score |-> 50, mixed |-> FALSE],
     [length |-> 30, language |-> "en", best_score |-> 50, mixed |-> TRUE]}
LgDocLists == UNION {[1 .. n -> LgDocs] : n \in 0 .. MaxBatch}

\* LanguageFilterConfig; confidences are in hundredths
LanguageFilterConfig ==
    [target_languages |-> {}, min_confidence |-> 65, remove_mixed_language |-> TRUE,
     min_text_length |-> 10]
LgConfigs ==
    {[LanguageFilterConfig EXCEPT !.min_confidence = c, !.target_languages = t] :
        c \in {30, 65}, t \in {{}, {"en"}}}

\* SimpleLanguageDetector::detect
detect(doc) ==
    IF doc.length < 10 THEN [language |-> "unknown", confidence |-> 0]
    ELSE [language |-> IF doc.best_score > 0 THEN doc.language ELSE "unknown",
          confidence |-> IF doc.best_score * 2 < 100 THEN doc.best_score * 2 ELSE 100]

\* language_utils::adjust_confidence_for_length; the result is in thousandths
adjust_confidence_for_length(base_confidence, text_length) ==
    IF text_length < 20 THEN base_confidence * 5
    ELSE IF text_length < 50 THEN base_confidence * 7
    ELSE IF text_length < 100 THEN base_confidence * 9
    ELSE base_confidence * 10

should_keep_document(detection) ==
    IF detection.confidence < lg_config.min_confidence THEN FALSE
    ELSE IF lg_config.target_languages # {}
         THEN detection.language \in lg_config.target_languages
         ELSE TRUE

is_mixed_language(doc) == lg_config.remove_mixed_language /\ doc.mixed

LanguageFilterResult ==
    [total_processed |-> 0, total_kept |-> 0, total_rejected |-> 0,
     filtered_documents |-> <<>>, rejected_documents |-> <<>>]

\* the body of the loop of filter() after the callback, for documents[i]
filter_document(result, i, doc) ==
    LET Reject == [result EXCEPT !.rejected_documents = Append(@, i),
                                 !.total_rejected = @ + 1]
        Keep == [result EXCEPT !.filtered_documents = Append(@, i), !.total_kept = @ + 1]
    IN IF doc.length < lg_config.min_text_length THEN Reject
       ELSE IF is_mixed_language(doc) THEN Reject
       ELSE IF should_keep_document(detect(doc)) THEN Keep
       ELSE Reject

LgInit ==
    /\ lg_pc = "idle"
    /\ lg_config \in LgConfigs
    /\ lg_documents = <<>>
    /\ lg_callback = FALSE
    /\ lg_i = 0
    /\ lg_result = LanguageFilterResult
    /\ lg_calls = <<>>

LgOff ==
    /\ lg_pc = "off"
    /\ lg_config = LanguageFilterConfig
    /\ lg_documents = <<>>
    /\ lg_callback = FALSE
    /\ lg_i = 0
    /\ lg_result = LanguageFilterResult
    /\ lg_calls = <<>>

\* filter(): entry, up to the loop
LG_Filter ==
    /\ lg_pc = "idle"
    /\ \E documents \in LgDocLists, progress_callback \in BOOLEAN :
        /\ lg_documents' = documents
        /\ lg_callback' = progress_callback
        /\ lg_result' = [LanguageFilterResult EXCEPT !.total_processed = Len(documents)]
    /\ lg_i' = 0
    /\ lg_calls' = <<>>
    /\ lg_pc' = "loop"
    /\ UNCHANGED lg_config
    /\ UNCHANGED <<component, use_openmp, edVars, ndVars, lfVars, mqVars, opVars, dfVars, pfVars, stVars, hpVars, tuVars, dmVars>>

\* head of a loop pass: progress_callback(i + 1, documents.size(), ...)
LG_ProgressCallback ==
    /\ lg_pc = "loop"
    /\ lg_i < Len(lg_documents)
    /\ lg_calls' = IF lg_callback
                   THEN Append(lg_calls,
                               [current |-> lg_i + 1, total |-> Len(lg_documents),
                                processed |-> lg_result.total_kept + lg_result.total_rejected])
                   ELSE lg_calls
    /\ lg_pc' = "document"
    /\ UNCHANGED <<lg_config, lg_documents, lg_callback, lg_i, lg_result>>
    /\ UNCHANGED <<component, use_openmp, edVars, ndVars, lfVars, mqVars, opVars, dfVars, pfVars, stVars, hpVars, tuVars, dmVars>>

\* rest of the loop pass: the document is kept or rejected
LG_Document ==
    /\ lg_pc = "document"
    /\ lg_result' = filter_document(lg_result, lg_i + 1, lg_documents[lg_i + 1])
    /\ lg_i' = lg_i + 1
    /\ lg_pc' = "loop"
    /\ UNCHANGED <<lg_config, lg_documents, lg_callback, lg_calls>>
    /\ UNCHANGED <<component, use_openmp, edVars, ndVars, lfVars, mqVars, opVars, dfVars, pfVars, stVars, hpVars, tuVars, dmVars>>

LG_Return ==
    /\ lg_pc = "loop"
    /\ lg_i = Len(lg_documents)
    /\ lg_pc' = "returned"
    /\ UNCHANGED <<lg_config, lg_documents, lg_callback, lg_i, lg_result, lg_calls>>
    /\ UNCHANGED <<component, use_openmp, edVars, ndVars, lfVars, mqVars, opVars, dfVars, pfVars, stVars, hpVars, tuVars, dmVars>>

LgNext ==
    \/ LG_Filter
    \/ LG_ProgressCallback
    \/ LG_Document
    \/ LG_Return

\* ============================================================================
\* TextUtils (src/filters/quality/src/utils.cpp)
\* ============================================================================
\* A text is a sequence of characters.  The sample texts are built from pieces:
\* entities, angle brackets, a letter and a space.
MaxPieces == 3
amp_entity == <<"&", "a", "m", "p", ";">>
lt_entity == <<"&", "l", "t", ";">>
gt_entity == <<"&", "g", "t", ";">>
quot_entity == <<"&", "q", "u", "o", "t", ";">>
nbsp_entity == <<"&", "n", "b", "s", "p", ";">>
TuPieces == {amp_entity, lt_entity, gt_entity, <<"l", "t", ";">>, <<"<">>, <<">">>, <<"b">>, <<" ">>}
RECURSIVE TuConcat(_)
TuConcat(pieces) ==
    IF pieces = <<>> THEN <<>> ELSE Head(pieces) \o TuConcat(Tail(pieces))
TuTexts ==
    {TuConcat(pieces) : pieces \in UNION {[1..n -> TuPieces] : n \in 0..MaxPieces}}

\* std::regex_replace(text, std::regex("<[^>]*>"), ""): every leftmost match, from
\* a "<" to the first ">" after it, is removed
RECURSIVE html_regex_replace(_)
html_regex_replace(text) ==
    IF text = <<>> THEN <<>>
    ELSE IF Head(text) = "<" /\ \E j \in 2..Len(text) : text[j] = ">"
         THEN LET j == CHOOSE j \in 2..Len(text) :
                           /\ text[j] = ">"
                           /\ \A k \in 2..(j - 1) : text[k] # ">"
              IN html_regex_replace(SubSeq(text, j + 1, Len(text)))
         ELSE <<Head(text)>> \o html_regex_replace(Tail(text))

\* std::regex_replace(text, std::regex(entity), replacement) for a literal pattern
RECURSIVE regex_replace(_, _, _)
regex_replace(text, entity, replacement) ==
    IF Len(text) < Len(entity) THEN text
    ELSE IF SubSeq(text, 1, Len(entity)) = entity
         THEN replacement \o regex_replace(SubSeq(text, Len(entity) + 1, Len(text)),
                                           entity, replacement)
         ELSE <<Head(text)>> \o regex_replace(Tail(text), entity, replacement)

\* TextUtils::normalize_whitespace: runs of whitespace become one space, then the
\* leading and the trailing space are cut
RECURSIVE collapse_whitespace(_, _)
collapse_whitespace(text, in_whitespace) ==
    IF text = <<>> THEN <<>>
    ELSE IF Head(text) \in isspace
         THEN (IF in_whitespace THEN <<>> ELSE <<" ">>)
                  \o collapse_whitespace(Tail(text), TRUE)
         ELSE <<Head(text)>> \o collapse_whitespace(Tail(text), FALSE)
normalize_whitespace(text) ==
    LET result == collapse_whitespace(text, FALSE)
        not_space == {i \in 1..Len(result) : result[i] # " "}
    IN IF not_space = {} THEN <<>>
       ELSE LET start == CHOOSE i \in not_space : \A j \in not_space : i <= j
                end == CHOOSE i \in not_space : \A j \in not_space : i >= j
            IN SubSeq(result, start, end)

\* TextUtils::strip_html: tags removed, then the entities decoded one after
\* another, then whitespace normalized
decode_entities(text) ==
    regex_replace(
        regex_replace(
            regex_replace(
                regex_replace(
                    regex_replace(text, amp_entity, <<"&">>),
                    lt_entity, <<"<">>),
                gt_entity, <<">">>),
            quot_entity, <<"\"">>),
        nbsp_entity, <<" ">>)
strip_html(text) == normalize_whitespace(decode_entities(html_regex_replace(text)))

TuInit ==
    /\ tu_text \in TuTexts
    /\ tu_result = <<>>
    /\ tu_calls = 0
TuOff ==
    /\ tu_text = <<>>
    /\ tu_result = <<>>
    /\ tu_calls = 0

\* result = TextUtils::strip_html(text)
TU_StripHtml ==
    /\ component = "utils"
    /\ tu_calls = 0
    /\ tu_result' = strip_html(tu_text)
    /\ tu_calls' = 1
    /\ UNCHANGED <<tu_text>>
    /\ UNCHANGED <<component, use_openmp, edVars, ndVars, lfVars, mqVars, opVars, dfVars, pfVars, stVars, hpVars, lgVars, dmVars>>

\* result = TextUtils::strip_html(result): the function applied to its own output
TU_StripHtmlAgain ==
    /\ component = "utils"
    /\ tu_calls = 1
    /\ tu_text' = tu_result
    /\ tu_result' = strip_html(tu_result)
    /\ tu_calls' = 2
    /\ UNCHANGED <<component, use_openmp, edVars, ndVars, lfVars, mqVars, opVars, dfVars, pfVars, stVars, hpVars, lgVars, dmVars>>

TuNext == TU_StripHtml \/ TU_StripHtmlAgain

\* ============================================================================
\* DomainFilter (src/filters/content/src/domain_filter.cpp)
\* ============================================================================
\* A host is given with what the filter reads from its name: its top-level
\* domain, its length, the number of its hyphens and dots, and its first label
\* when that is one of admin / secure / login / xn--.
NoHost == [name |-> "", tld |-> "", length |-> 0, hyphens |-> 0, dots |-> 0, prefix |-> ""]
DmHosts ==
    {[name |-> "spam-site.com", tld |-> "com", length |-> 13, hyphens |-> 1, dots |-> 1, prefix |-> ""],
     [name |-> "good.com", tld |-> "com", length |-> 8, hyphens |-> 0, dots |-> 1, prefix |-> ""],
     [name |-> "free.tk", tld |-> "tk", length |-> 7, hyphens |-> 0, dots |-> 1, prefix |-> ""],
     [name |-> "bit.ly", tld |-> "ly", length |-> 6, hyphens |-> 0, dots |-> 1, prefix |-> ""],
     [name |-> "b.net", tld |-> "net", length |-> 5, hyphens |-> 0, dots |-> 1, prefix |-> ""]}
\* arguments of add_blocked_domain and remove_blocked_domain
DmBlockArgs == {"b.net", "spam-site.com"}
\* a URL: scheme, optional "www.", host, path; the empty URL has none of them,
\* the malformed one has a path and no scheme or host
EmptyUrl == [scheme |-> "", www |-> FALSE, host |-> NoHost, path |-> ""]
DmUrls ==
    {EmptyUrl, [scheme |-> "", www |-> FALSE, host |-> NoHost, path |-> "/x"]}
      \cup [scheme : {"http://"}, www : BOOLEAN, host : DmHosts, path : {"", "/x"}]
      \cup {[scheme |-> "http://", www |-> FALSE, host |-> host, path |-> "/click"] :
                host \in {h \in DmHosts : h.name = "good.com"}}

\* ContentUtils::extract_domain: the authority without the scheme and without
\* a leading "www."; empty when the URL is malformed
extract_domain(url) == IF url.scheme = "" THEN NoHost ELSE url.host
\* ContentUtils::extract_tld: what follows the last dot of the domain
extract_tld(domain) == domain.tld

\* DomainFilterConfig(): the members the filter reads
DomainFilterConfig ==
    [blocked_domains |-> {}, allowed_domains |-> {}, blocked_url_patterns |-> {},
     blocked_tlds |-> {}, spam_keywords |-> {}, block_ip_addresses |-> FALSE,
     check_url_shorteners |-> TRUE]
\* the configurations a caller passes in
DmConfigs ==
    {DomainFilterConfig,
     [DomainFilterConfig EXCEPT !.blocked_domains = {"b.net"}],
     [DomainFilterConfig EXCEPT !.allowed_domains = {"good.com"}],
     [DomainFilterConfig EXCEPT !.blocked_domains = {"b.net"}, !.blocked_tlds = {"tk"}]}

default_patterns == {".tk/", "/click"}
default_blocked ==
    {"spam-site.com", "malware-host.net", "phishing-example.org",
     "auto-content.info", "click-farm.co", "fake-news.net"}
NoLists == [url_shorteners_ |-> {}, malicious_tlds_ |-> {}, blocked_url_regexes_ |-> {}]

\* compile_patterns: the default patterns when the configuration has none
dm_compile_patterns(config) ==
    IF config.blocked_url_patterns = {} THEN default_patterns ELSE config.blocked_url_patterns

\* initialize_known_lists: the two known lists, and the default blocklist put
\* into config_ when its block set is empty
initialize_known_lists(config) ==
    [lists |-> [url_shorteners_ |-> {"bit.ly", "tinyurl.com", "t.co", "goo.gl", "ow.ly",
                                      "short.link", "rb.gy", "cutt.ly", "is.gd", "v.gd"},
                malicious_tlds_ |-> {"tk", "ml", "ga", "cf", "click", "download", "review"},
                blocked_url_regexes_ |-> dm_compile_patterns(config)],
     config |-> IF config.blocked_domains = {}
                THEN [config EXCEPT !.blocked_domains = default_blocked]
                ELSE config]

is_domain_blocked(domain) == domain.name \in dm_config.blocked_domains
dm_is_domain_allowed(domain) == domain.name \in dm_config.allowed_domains
is_tld_blocked(tld) == tld \in dm_config.blocked_tlds
is_url_shortener_domain(domain) == domain.name \in dm_lists.url_shorteners_

\* std::regex_match(url, regex) for the patterns the sample URLs can match:
\* ".*\.tk/.*" and ".*/click.*"
matches_blocked_patterns(url) ==
    \/ ".tk/" \in dm_lists.blocked_url_regexes_ /\ url.host.tld = "tk" /\ url.path # ""
    \/ "/click" \in dm_lists.blocked_url_regexes_ /\ url.path = "/click"

contains_spam_keywords(url) ==
    \E keyword \in dm_config.spam_keywords : keyword \in {url.host.name, url.path}

has_suspicious_subdomain(url) ==
    LET domain == extract_domain(url)
    IN domain.dots > 4 \/ domain.prefix \in {"admin.", "secure.", "login."}
has_suspicious_path(url) == url.path \in {"/click", "/redirect", "/track", "/ads"}

\* count_suspicious_patterns; the sample URLs have no "?", so
\* has_suspicious_parameters adds nothing
count_suspicious_patterns(url) ==
    LET domain == extract_domain(url)
        One(b) == IF b THEN 1 ELSE 0
    IN One(has_suspicious_subdomain(url)) + One(has_suspicious_path(url))
         + One(contains_spam_keywords(url)) + One(domain.length > 50)
         + One(domain.hyphens > 3) + One(domain.dots > 4)

\* calculate_domain_reputation, in units of 1/100000
ReputationOne == 100000
calculate_domain_reputation(domain) ==
    IF domain.name = "" THEN 0
    ELSE LET r0 == 50000
             r1 == IF dm_is_domain_allowed(domain) THEN ReputationOne ELSE r0
             r2 == IF is_domain_blocked(domain) THEN 0 ELSE r1
             tld == extract_tld(domain)
             r3 == IF tld \in dm_lists.malicious_tlds_ THEN (r2 * 3) \div 10
                   ELSE IF tld \in {"com", "org", "edu", "gov"} THEN (r2 * 12) \div 10
                   ELSE r2
             r4 == IF domain.length > 50 THEN (r3 * 8) \div 10 ELSE r3
             r5 == IF domain.prefix = "xn--" THEN (r4 * 7) \div 10 ELSE r4
             r6 == IF domain.hyphens > 3 THEN (r5 * 8) \div 10 ELSE r5
         IN Clamp(0, ReputationOne, r6)

\* DomainFilter::evaluate: result and reason of the decision
dm_evaluate(url) ==
    LET domain == extract_domain(url)
        Reject(reason) == [result |-> "REJECT", reason |-> reason]
    IN IF domain.name = "" /\ url # EmptyUrl THEN Reject("SUSPICIOUS_URL")
       ELSE IF is_domain_blocked(domain) THEN Reject("BLOCKED_DOMAIN")
       ELSE IF dm_is_domain_allowed(domain) THEN [result |-> "KEEP", reason |-> "CUSTOM"]
       ELSE IF is_tld_blocked(extract_tld(domain)) THEN Reject("SUSPICIOUS_URL")
       ELSE IF matches_blocked_patterns(url) THEN Reject("SUSPICIOUS_URL")
       ELSE IF contains_spam_keywords(url) THEN Reject("SUSPICIOUS_URL")
       ELSE IF dm_config.check_url_shorteners /\ is_url_shortener_domain(domain)
            THEN Reject("SUSPICIOUS_URL")
       ELSE IF count_suspicious_patterns(url) > 5 THEN Reject("SUSPICIOUS_URL")
       ELSE IF 10 * calculate_domain_reputation(domain) < 3 * ReputationOne
            THEN Reject("BLOCKED_DOMAIN")
       ELSE [result |-> "KEEP", reason |-> "CUSTOM"]

\* DomainFilter() = default, or DomainFilter(config)
DmInit ==
    /\ dm_last = [evaluated |-> FALSE]
    /\ \/ /\ dm_config = DomainFilterConfig
          /\ dm_lists = NoLists
          /\ dm_caller_blocked = {}
       \/ \E config \in DmConfigs :
            /\ dm_config = initialize_known_lists(config).config
            /\ dm_lists = initialize_known_lists(config).lists
            /\ dm_caller_blocked = config.blocked_domains
DmOff ==
    /\ dm_last = [evaluated |-> FALSE]
    /\ dm_config = DomainFilterConfig
    /\ dm_lists = NoLists
    /\ dm_caller_blocked = {}

\* set_config: config_ = config, compile_patterns, initialize_known_lists
DM_SetConfig ==
    /\ component = "domain"
    /\ \E config \in DmConfigs :
        /\ dm_config' = initialize_known_lists(config).config
        /\ dm_lists' = initialize_known_lists(config).lists
        /\ dm_caller_blocked' = config.blocked_domains
    /\ UNCHANGED dm_last
    /\ UNCHANGED <<component, use_openmp, edVars, ndVars, lfVars, mqVars, opVars, dfVars, pfVars, stVars, hpVars, lgVars, tuVars>>

DM_AddBlockedDomain ==
    /\ component = "domain"
    /\ \E domain \in DmBlockArgs :
        /\ dm_config' = [dm_config EXCEPT !.blocked_domains = @ \cup {domain}]
        /\ dm_caller_blocked' = dm_caller_blocked \cup {domain}
    /\ UNCHANGED <<dm_lists, dm_last>>
    /\ UNCHANGED <<component, use_openmp, edVars, ndVars, lfVars, mqVars, opVars, dfVars, pfVars, stVars, hpVars, lgVars, tuVars>>

DM_RemoveBlockedDomain ==
    /\ component = "domain"
    /\ \E domain \in DmBlockArgs :
        /\ dm_config' = [dm_config EXCEPT !.blocked_domains = @ \ {domain}]
        /\ dm_caller_blocked' = dm_caller_blocked \ {domain}
    /\ UNCHANGED <<dm_lists, dm_last>>
    /\ UNCHANGED <<component, use_openmp, edVars, ndVars, lfVars, mqVars, opVars, dfVars, pfVars, stVars, hpVars, lgVars, tuVars>>

DM_Evaluate ==
    /\ component = "domain"
    /\ \E url \in DmUrls :
        dm_last' = [evaluated |-> TRUE, url |-> url, decision |-> dm_evaluate(url),
                    caller_blocked |-> dm_caller_blocked]
    /\ UNCHANGED <<dm_config, dm_lists, dm_caller_blocked>>
    /\ UNCHANGED <<component, use_openmp, edVars, ndVars, lfVars, mqVars, opVars, dfVars, pfVars, stVars, hpVars, lgVars, tuVars>>

DmNext == DM_SetConfig \/ DM_AddBlockedDomain \/ DM_RemoveBlockedDomain \/ DM_Evaluate

\* ================================================================ system
InitExact == component = "exact" /\ use_openmp \in BOOLEAN /\ EdInit /\ NdOff /\ LfOff /\ MqOff /\ OpOff /\ DfOff /\ PfOff /\ StOff /\ HpOff /\ LgOff /\ TuOff /\ DmOff
InitNear == component = "near" /\ use_openmp \in BOOLEAN /\ EdOff /\ NdInit /\ LfOff /\ MqOff /\ OpOff /\ DfOff /\ PfOff /\ StOff /\ HpOff /\ LgOff /\ TuOff /\ DmOff
InitLicense ==
    component = "license" /\ use_openmp = FALSE /\ EdOff /\ NdOff /\ LfInit /\ MqOff /\ OpOff /\ DfOff /\ PfOff /\ StOff /\ HpOff /\ LgOff /\ TuOff /\ DmOff
InitModel ==
    component = "model" /\ use_openmp = FALSE /\ EdOff /\ NdOff /\ LfOff /\ MqInit /\ OpOff /\ DfOff /\ PfOff /\ StOff /\ HpOff /\ LgOff /\ TuOff /\ DmOff
InitProcessor ==
    component = "processor" /\ use_openmp = FALSE /\ EdOff /\ NdOff /\ LfOff /\ MqOff /\ OpInit /\ DfOff /\ PfOff /\ StOff /\ HpOff /\ LgOff /\ TuOff /\ DmOff

InitDecontamination ==
    /\ component = "decontamination" /\ use_openmp = FALSE
    /\ EdOff /\ NdOff /\ LfOff /\ MqOff /\ OpOff /\ DfInit /\ PfOff /\ StOff /\ HpOff /\ LgOff /\ TuOff /\ DmOff

InitPII ==
    /\ component = "pii" /\ use_openmp = FALSE
    /\ EdOff /\ NdOff /\ LfOff /\ MqOff /\ OpOff /\ DfOff /\ PfInit /\ StOff /\ HpOff /\ LgOff /\ TuOff /\ DmOff

SpecExact == InitExact /\ [][EdNext]_vars
\* deduplicate() runs to its end: its thread takes a step whenever it has one
SpecExactFair == InitExact /\ [][EdNext]_vars /\ WF_vars(EdNext)
SpecNear == InitNear /\ [][NdNext]_vars
SpecLicense == InitLicense /\ [][LfNext]_vars
SpecModel == InitModel /\ [][MqNext]_vars
\* one filter object per run: LicenseFilter or ModelQualityFilter
SpecFilters ==
    /\ InitLicense \/ InitModel
    /\ [][(component = "license" /\ LfNext) \/ (component = "model" /\ MqNext)]_vars
SpecProcessor == InitProcessor /\ [][OpNext]_vars
SpecDecontamination == InitDecontamination /\ [][DfNext]_vars
SpecPII == InitPII /\ [][PfNext]_vars
\* an ExactDeduplicator on which deduplicate_stream is called
InitStream ==
    /\ component = "stream" /\ use_openmp = FALSE
    /\ \E config \in EdConfigs : ed_config = config
    /\ ed_stats = [total_processed_ |-> 0, unique_found_ |-> 0, duplicates_removed_ |-> 0]
    /\ ed_pc = "off" /\ ed_documents = <<>> /\ ed_iter = <<>> /\ ed_local = <<>>
    /\ ed_hashes = <<>> /\ ed_result = EmptyResult
    /\ NdOff /\ LfOff /\ MqOff /\ OpOff /\ DfOff /\ PfOff /\ StInit /\ HpOff /\ LgOff /\ TuOff /\ DmOff
SpecStream == InitStream /\ [][StNext]_vars
InitExtractor ==
    /\ component = "extractor" /\ use_openmp = FALSE
    /\ EdOff /\ NdOff /\ LfOff /\ MqOff /\ OpOff /\ DfOff /\ PfOff /\ StOff /\ HpInit /\ LgOff /\ TuOff /\ DmOff
\* extract() runs on one thread, which takes its next step whenever it has one
SpecExtractor == InitExtractor /\ [][HpNext]_vars /\ WF_vars(HpNext)
InitLanguage ==
    /\ component = "language" /\ use_openmp = FALSE
    /\ EdOff /\ NdOff /\ LfOff /\ MqOff /\ OpOff /\ DfOff /\ PfOff /\ StOff /\ HpOff /\ LgInit /\ TuOff /\ DmOff
SpecLanguage == InitLanguage /\ [][LgNext]_vars
InitUtils ==
    /\ component = "utils" /\ use_openmp = FALSE
    /\ EdOff /\ NdOff /\ LfOff /\ MqOff /\ OpOff /\ DfOff /\ PfOff /\ StOff /\ HpOff /\ LgOff /\ TuInit /\ DmOff
SpecUtils == InitUtils /\ [][TuNext]_vars
InitDomain ==
    /\ component = "domain" /\ use_openmp = FALSE
    /\ EdOff /\ NdOff /\ LfOff /\ MqOff /\ OpOff /\ DfOff /\ PfOff /\ StOff /\ HpOff /\ LgOff /\ TuOff /\ DmInit
SpecDomain == InitDomain /\ [][DmNext]_vars
SpecDedup == (InitExact \/ InitNear) /\ [][EdNext \/ NdNext]_vars

\* ======================================================= ExactDeduplicator
\* the positions of the last call's documents that share the hash h
HashGroup(h) == {i \in DOMAIN ed_hashes : ed_hashes[i] = h}
EdReturnedNonEmpty == ed_pc = "returned" /\ ed_documents # <<>>

\* C1: when deduplicate() has returned, every group of documents with equal
\* hashes has exactly one member in the unique output, and that member is the
\* lowest position of the group under keep_first and the highest otherwise;
\* a document whose hash is unique is therefore always output.
C1_OneRepresentativePerHashGroup ==
    EdReturnedNonEmpty =>
        \A h \in Range(ed_hashes) :
            LET rep == IF ed_config.keep_first THEN MinOf(HashGroup(h)) ELSE MaxOf(HashGroup(h))
            IN /\ Count(ed_result.original_indices, rep) = 1
               /\ \A i \in HashGroup(h) \ {rep} : Count(ed_result.original_indices, i) = 0

\* a returned keep-last call with a group of two or more and a singleton group
C1_Witness ==
    /\ EdReturnedNonEmpty
    /\ ~ed_config.keep_first
    /\ \E h \in Range(ed_hashes) : Cardinality(HashGroup(h)) >= 2
    /\ \E h \in Range(ed_hashes) : Cardinality(HashGroup(h)) = 1

\* C2: when deduplicate() has returned, the unique output lists the surviving
\* positions in strictly increasing order, for both values of keep_first.
C2_UniqueOutputIncreasing ==
    EdReturnedNonEmpty => IsStrictlyIncreasing(ed_result.original_indices)

\* ======================================================== NearDeduplicator
NdReturnedNonEmpty == nd_pc = "returned" /\ nd_documents # <<>>
NdStored(i) == i \in DOMAIN nd_iter /\ nd_iter[i] = "stored"
\* two stored MinHash signatures that were updated with the same element hashes
SameElements(i, j) ==
    \E hs \in ElementHashings :
        /\ nd_signatures[i] =
               MinHashSignatures[nd_config.num_permutations, nd_signatures[i].seed, hs]
        /\ nd_signatures[j] =
               MinHashSignatures[nd_config.num_permutations, nd_signatures[j].seed, hs]

\* C4: two MinHashSignature objects of the same num_permutations that were
\* updated with the same elements have a Jaccard similarity of 1.0 (within
\* 0.01), whichever objects they are.
C4_SameElementsSimilarityOne ==
    nd_config.method = "MINHASH" =>
        \A i, j \in DOMAIN nd_iter :
            (NdStored(i) /\ NdStored(j) /\ SameElements(i, j)) =>
                100 * JaccardMatches(nd_signatures[i], nd_signatures[j])
                    >= 99 * nd_config.num_permutations

\* C5: when deduplicate() has returned, the unique output holds the member of
\* lowest position of every similarity group and none of its other members,
\* and it holds every document that is in no group.
C5_LowestOfGroupKept ==
    NdReturnedNonEmpty =>
        /\ \A g \in DOMAIN nd_result.duplicate_groups :
            LET members == Range(nd_result.duplicate_groups[g])
            IN \A i \in members :
                (i \in Range(nd_result.original_indices)) <=> (i = MinOf(members))
        /\ \A i \in DOMAIN nd_documents :
            i \notin GroupMembers(nd_result.duplicate_groups) =>
                i \in Range(nd_result.original_indices)

\* C6: when deduplicate() has returned, no position occurs twice in a
\* similarity group or in two groups, and no position occurs twice in the
\* unique output.
C6_GroupsDisjointOutputOnce ==
    NdReturnedNonEmpty =>
        /\ \A i \in DOMAIN nd_documents :
            /\ Cardinality({<<g, k>> \in (DOMAIN nd_result.duplicate_groups) \X (1 .. Len(nd_documents)) :
                    /\ k \in DOMAIN nd_result.duplicate_groups[g]
                    /\ nd_result.duplicate_groups[g][k] = i}) <= 1
            /\ Count(nd_result.original_indices, i) <= 1

\* a returned MinHash call over three documents with a group of two or more
C6_Witness ==
    /\ NdReturnedNonEmpty
    /\ nd_config.method = "MINHASH"
    /\ Len(nd_documents) = 3
    /\ \E g \in DOMAIN nd_result.duplicate_groups : Len(nd_result.duplicate_groups[g]) >= 2
    /\ Len(nd_result.original_indices) = 2

\* C7: when deduplicate() has returned, the unique output lists the surviving
\* positions in strictly increasing order, for MinHash and for SimHash.
C7_NearOutputIncreasing ==
    NdReturnedNonEmpty => IsStrictlyIncreasing(nd_result.original_indices)

\* ================================================ hashes / signatures loop
\* C10: in every interleaving of the loop iterations, once iteration i has
\* stored its value, position i of the hash vector (exact) or signature
\* vector (near) holds the value that was computed from document i, and for
\* the digest algorithms that value is the digest of document i.
C10_StoredAtOwnPosition ==
    /\ \A i \in DOMAIN ed_iter :
        ed_iter[i] = "stored" =>
            /\ i \in DOMAIN ed_hashes
            /\ ed_hashes[i] = ed_local[i]
            /\ ed_hashes[i] \in compute_hash(ed_documents[i], ed_config.algorithm)
    /\ \A i \in DOMAIN nd_iter :
        nd_iter[i] = "stored" =>
            /\ nd_signatures[i] = nd_local[i]
            /\ nd_signatures[i] \in SignaturesOf(nd_documents[i], nd_config)

\* the parallel loop has run iteration 2 before iteration 1 on two documents
\* with different digests
C10_Witness ==
    /\ ed_pc = "hashing"
    /\ ed_config.parallel /\ use_openmp
    /\ ed_config.algorithm = "MD5"
    /\ Len(ed_iter) >= 2
    /\ ed_iter[1] = "pending" /\ ed_iter[2] = "stored"
    /\ md5_hash(ed_documents[1]) # md5_hash(ed_documents[2])

\* =========================================================== LicenseFilter
LaterCalls == {"set_license_config", "configure", "reset_stats"}

\* C3: once add_opt_out_request(d) has been called, every evaluate() of a
\* document whose URL domain (extract_domain_from_url of its url) is d returns
\* REJECT, whatever the license, the allowlist, the paywall status, the
\* confidence and strict_mode say, and whatever set_license_config, configure
\* or reset_stats calls were made in between.
C3_OptOutAlwaysRejects ==
    (lf_last.evaluated /\ lf_last.requested) => lf_last.decision.result = "REJECT"

\* an opted-out domain that every other signal would keep (license detected
\* and allowed, domain on the allowlist, not paywalled), evaluated after all
\* three later calls
C3_Witness ==
    /\ lf_last.evaluated /\ lf_last.requested
    /\ lf_last.later = LaterCalls
    /\ lf_last.decision.confidence = 10
    /\ has_valid_license(detect_license(lf_last.doc.text))
    /\ lf_last.decision.result = "REJECT"

\* ============================================================== statistics
\* C8: at every moment the decision counters of a filter add up to its
\* total: kept + rejected == total_processed for LicenseFilter and for
\* ModelQualityFilter (neither has a sanitized counter), whatever result each
\* evaluate() returned, UNKNOWN included.
C8_DecisionCountersSum ==
    /\ lf_stats.kept + lf_stats.rejected = lf_stats.total_processed
    /\ mq_stats.kept + mq_stats.rejected = mq_stats.total_processed

\* ============================================================ orchestrator
\* C9: when assess_document() has returned, it has yielded exactly one
\* assessment for the document and the assessment's final_result is KEEP,
\* REJECT or SANITIZE, never UNKNOWN, also when every filter answered UNKNOWN
\* or no filter is registered.
C9_OneAssessmentNeverUnknown ==
    op_pc = "done" =>
        /\ op_yielded = 1
        /\ op_assessment.final_result \in {"KEEP", "REJECT", "SANITIZE"}

\* two filters ran, both answered UNKNOWN, and the document is kept
C9_Witness ==
    /\ op_pc = "done"
    /\ Len(op_assessment.filter_decisions) = MaxFilters
    /\ \A k \in DOMAIN op_assessment.filter_decisions :
            op_assessment.filter_decisions[k].result = "UNKNOWN"
    /\ op_assessment.final_result = "KEEP"

\* ==================================================== DecontaminationFilter
\* C11: after any sequence of add calls on an NGramBloomFilter,
\* might_contain(x) returns true for every n-gram x that was added.
C11_NoFalseNegatives ==
    \A x \in df_added : df_bloom.state = "ok" /\ might_contain(df_bloom, x) = "true"

\* C12: assess_document flags a document as contaminated if and only if
\* contamination_score >= contamination_threshold and the number of matches
\* is at least min_matches_to_reject.
C12_FlaggedIffScoreAndMatches ==
    (df_last.assessed /\ ~df_last.cached) =>
        LET a == df_last.assessment
        IN a.is_contaminated <=>
              /\ a.contamination_score.num * 10
                    >= df_last.config.contamination_threshold * a.contamination_score.den
              /\ Len(a.matches) >= df_last.config.min_matches_to_reject

\* C19: most_likely_source is a dataset with the largest number of matches,
\* and equal match counts per dataset always give the same most_likely_source.
C19_MostLikelySourceByName ==
    \A id1, id2 \in DOMAIN df_cache :
        LET a1 == df_cache[id1]
            a2 == df_cache[id2]
            counts == source_counts(a1.matches)
        IN a1.matches # <<>> =>
             /\ a1.most_likely_source \in DOMAIN counts
             /\ \A d \in DOMAIN counts : counts[d] <= counts[a1.most_likely_source]
             /\ counts = source_counts(a2.matches) =>
                    a1.most_likely_source = a2.most_likely_source

\* ================================================================ PIIFilter
\* C13: when evaluate returns Sanitize with placeholder replacement, PII
\* detection run again on the returned sanitized_text finds no matches.
C13_SanitizedTextHasNoPII ==
    (/\ pf_last.evaluated
     /\ pf_last.decision.result = "SANITIZE"
     /\ pf_last.config.use_placeholders) => pf_last.detected_again = <<>>

\* ============================================================ LicenseFilter
\* the rejection rules in the stated order, each with what it reports
C14_Rules(doc, confidence) ==
    LET domain == extract_domain_from_url(doc.url)
    IN <<[applies |-> domain \in lf_opted_out_domains, reason |-> "Domain opted out"],
         [applies |-> doc.id \in removal_requests_, reason |-> "Content removal requested"],
         [applies |-> /\ lf_config.allowed_domains # {}
                      /\ domain \notin (lf_config.allowed_domains
                                          \cup lf_config.creative_commons_domains
                                          \cup lf_config.public_domain_domains),
          reason |-> "Domain not in allowlist"],
         [applies |-> domain \in lf_config.blocked_domains, reason |-> "Domain blocked"],
         [applies |-> is_paywalled(doc), reason |-> "Content is paywalled"],
         [applies |-> /\ detect_license(doc.text) \notin lf_config.allowed_licenses
                      /\ (lf_config.strict_mode \/ TextFind(doc.text, "©")),
          reason |-> "License not allowed"],
         [applies |-> /\ lf_config.strict_mode
                      /\ confidence < lf_config.confidence_threshold,
          reason |-> "License compliance confidence too low"]>>

C14_ReportsFirstRule(doc, decision) ==
    LET rules == C14_Rules(doc, decision.confidence)
        applicable == {i \in DOMAIN rules : rules[i].applies}
    IN IF applicable = {}
       THEN decision.result = "KEEP"
       ELSE /\ decision.result = "REJECT"
            /\ decision.details = rules[MinOf(applicable)].reason

C15_NoAllowlistAllowsAll ==
    lf_given_allowlist = {} =>
        \A doc \in LfDocs : evaluate(doc).details # "Domain not in allowlist"

\* ============================================================ ModelQualityFilter
\* C16: a ModelQualityFilter that is not ready (no model added, or none of
\* its models loaded) returns UNKNOWN from evaluate for every document, under
\* every configuration.
C16_NotReadyReturnsUnknown ==
    (\A k \in DOMAIN mq_models : ~mq_models[k].loaded) =>
        \A text \in MqTexts : mq_evaluate(text).result = "UNKNOWN"

\* ============================================================ NearDeduplicator
\* C17: for every configured signature length num_permutations, the LSH
\* index that deduplicate builds in find_similar_groups_lsh has NumBands bands
\* of BandSize rows with NumBands * BandSize = num_permutations.
C17_BandsCoverSignature ==
    (/\ nd_config.method = "MINHASH"
     /\ nd_documents # <<>>
     /\ nd_pc \in {"returned", "length_error", "crashed"}) =>
        NumBands * BandSize = nd_config.num_permutations

\* every unique_count a run of deduplicate(documents) under config can
\* return: one per signature vector the run can compute and per grouping
C18_UniqueCounts(documents, config) ==
    LET n == Len(documents)
        vectors == {sigs \in [1 .. n -> UNION {SignaturesOf(documents[i], config) : i \in 1 .. n}] :
                        \A i \in 1 .. n : sigs[i] \in SignaturesOf(documents[i], config)}
    IN IF config.method = "MINHASH"
       THEN UNION {{Len(select_unique_near(groups, n)) :
                        groups \in find_similar_groups_lsh(sigs, config.threshold)} :
                   sigs \in vectors}
       ELSE {Len(select_unique_near(
                    find_similar_groups_simhash(sigs, config.threshold, config.simhash_bits), n)) :
                sigs \in vectors}

\* C18: for the same documents and the same method, a run of near-dedup with
\* a lower similarity threshold never returns more unique documents than the
\* run with the higher threshold.
C18_UniqueCountMonotoneInThreshold ==
    (nd_pc = "returned" /\ nd_documents # <<>>) =>
        \A lower \in {c \in NdConfigs : /\ c.threshold < nd_config.threshold
                                         /\ c = [nd_config EXCEPT !.threshold = c.threshold]} :
            \A unique_count \in C18_UniqueCounts(nd_documents, lower) :
                unique_count <= Len(nd_result.original_indices)

\* ================================= ExactDeduplicator::deduplicate_stream
\* the hash of line i of the stream: the one computed for it, or for a line
\* the loop did not hash the values compute_hash has for it
C20_HashOf(i) ==
    IF st_hashes[i] # NoHash THEN {st_hashes[i]}
    ELSE compute_hash(st_input[i], ed_config.algorithm)

\* C20 as stated: deduplicate_stream writes an input line if and only if no
\* earlier line of the stream had the same hash.
C20_WrittenIffHashUnseen ==
    \A i \in 1 .. st_read :
        st_written[i] <=> \A j \in 1 .. (i - 1) : C20_HashOf(j) \cap C20_HashOf(i) = {}

\* C20 amended: deduplicate_stream never writes an empty line, and writes a
\* non-empty line if and only if no earlier non-empty line of the stream had
\* the same hash; the output is the written lines in input order.
C20_NonEmptyWrittenIffHashUnseen ==
    /\ \A i \in 1 .. st_read :
        st_written[i] <=>
            /\ st_input[i] # EmptyLine
            /\ \A j \in 1 .. (i - 1) :
                    st_input[j] # EmptyLine => st_hashes[j] # st_hashes[i]
    /\ LET RECURSIVE Written(_)
           Written(i) == IF i > st_read THEN <<>>
                         ELSE (IF st_written[i] THEN <<st_input[i]>> ELSE <<>>) \o Written(i + 1)
       IN st_output = Written(1)

C20_Witness ==
    /\ st_pc = "returned"
    /\ EmptyLine \in Range(st_input)
    /\ \E i, j \in 1 .. st_read :
        /\ i < j /\ st_written[i] /\ ~st_written[j]
        /\ st_hashes[i] = st_hashes[j] /\ st_input[i] # st_input[j]

\* ======================================================= ExactDeduplicator
\* C21: after every call of deduplicate, a call with an empty input after a
\* non-empty one included, total_processed() is the size of that call's input
\* and duplicates_removed() is its input count minus its unique count.
C21_StatsDescribeLastCall ==
    ed_pc = "returned" =>
        /\ ed_stats.total_processed_ = Len(ed_documents)
        /\ ed_stats.unique_found_ = Len(ed_result.original_indices)
        /\ ed_stats.duplicates_removed_ = Len(ed_documents) - Len(ed_result.original_indices)

\* ============================================================ TextExtractor
\* C22: TextExtractor::extract terminates and returns a result for every
\* input string, malformed HTML included.
C22_ExtractTerminates == <>(hp_pc = "returned")

\* ============================================================ LanguageFilter
\* C23: in a batch run over N documents the progress callback is invoked once
\* per document, after that document has been processed, with processed
\* counts 1, 2, ..., N in increasing order and processed <= total = N.
C23_CallbackAfterEachDocument ==
    /\ \A k \in DOMAIN lg_calls :
        /\ lg_calls[k].current = k
        /\ lg_calls[k].current = lg_calls[k].processed
        /\ lg_calls[k].current <= lg_calls[k].total
        /\ lg_calls[k].total = Len(lg_documents)
    /\ (lg_pc = "returned" /\ lg_callback) => Len(lg_calls) = Len(lg_documents)

\* C24: the language filter compares min_confidence with the length-adjusted
\* confidence (x0.5 below 20 characters, x0.7 below 50, x0.9 below 100): no
\* document whose adjusted confidence is below min_confidence is kept.
C24_AdjustedConfidenceDecides ==
    \A k \in DOMAIN lg_result.filtered_documents :
        LET doc == lg_documents[lg_result.filtered_documents[k]]
        IN adjust_confidence_for_length(detect(doc).confidence, doc.length)
              >= 10 * lg_config.min_confidence

\* C25: strip_html is idempotent: applied to its own output it returns that
\* output unchanged, also for texts that contain the entities &lt; &gt; &amp;.
C25_StripHtmlIdempotent ==
    tu_calls = 2 => tu_result = tu_text

\* C26: compute_hash returns for every algorithm, XXHASH64 (the default)
\* included, so a deduplicate() call that has started hashing with XXHASH64
\* returns.
C26_DeduplicateReturns ==
    (ed_pc = "hashing" /\ ed_config.algorithm = "XXHASH64") ~> (ed_pc = "returned")

\* C27: assess_document returns the assessment the document's own text gives
\* under the current configuration and the currently loaded benchmark
\* n-grams, whatever calls came before: a memoized result never differs from
\* a fresh computation.
C27_AssessmentIsFresh ==
    (df_last.assessed /\ ~df_last.fresh.fault) =>
        /\ df_last.assessment.matches = df_last.fresh.matches
        /\ df_last.assessment.is_contaminated = df_last.fresh.is_contaminated
        /\ df_last.assessment.total_ngrams_checked = df_last.fresh.total_ngrams_checked

\* C28: the decision does not depend on max_matches_per_document: a document
\* whose fraction of extracted n-grams occurring in the benchmark set is at
\* least contamination_threshold is flagged, also when matching stopped early.
C28_FlaggedByFractionInBenchmark ==
    (df_last.assessed /\ ~df_last.cached /\ df_last.assessment.total_ngrams_checked > 0) =>
        (df_last.in_benchmark * 10
              >= df_last.config.contamination_threshold
                    * df_last.assessment.total_ngrams_checked
            => df_last.assessment.is_contaminated)

\* C29: evaluate rejects with reason BlockedDomain only when
\* extract_domain(url) is in the block set the caller configured; a document
\* with an empty URL, or of a domain the caller never blocked, is never
\* rejected with that reason.
C29_BlockedDomainOnlyForCallerBlocked ==
    (dm_last.evaluated /\ dm_last.decision = [result |-> "REJECT", reason |-> "BLOCKED_DOMAIN"]) =>
        /\ dm_last.url # EmptyUrl
        /\ extract_domain(dm_last.url).name \in dm_last.caller_blocked

\* C30: with prediction caching enabled, the ensemble prediction returned for
\* a text equals what the currently registered, currently loaded models
\* compute under the current configuration, also when the text was evaluated
\* before an add_model, load_all_models, unload_all_models or
\* set_model_config call.
C30_SameScore(a, b) ==
    LET RECURSIVE Gcd(_, _)
        Gcd(x, y) == IF y = 0 THEN x ELSE Gcd(y, x % y)
        Reduced(score) ==
            LET g == Gcd(score.num, score.den)
            IN [num |-> score.num \div g, den |-> score.den \div g]
    IN Reduced(a) = Reduced(b)
C30_EnsemblePredictionIsCurrent ==
    (mq_last.evaluated /\ ~mq_last.multistage) =>
        /\ C30_SameScore(mq_last.quality_score, mq_last.fresh.quality_score)
        /\ mq_last.confidence = mq_last.fresh.confidence
====
